---- MODULE Spec2Model ----
(***************************************************************************)
(* A model of the scorpius-rag core: the persistent embedding cache        *)
(* (src/src/utils/embedding_cache.py), the OpenAI embedding client         *)
(* (src/src/services/openai_embedding_service.py) and the search           *)
(* orchestrator (src/src/core/scorpius_rag_engine.py).                     *)
(*                                                                         *)
(* Texts are sequences of one-character strings, so that whitespace        *)
(* normalisation is computed and not assumed.  SHA-256 and MD5 are         *)
(* modelled as collision-free: a digest is the tagged value it was         *)
(* computed from.  Sizes are in bytes; one element of a modelled vector    *)
(* stands for a run of floats whose pickled size is BlockMb megabytes.     *)
(* The clock counts hours, the time of embed_batch and of a search half    *)
(* seconds.  Scores and distances are in hundredths, means are fractions.  *)
(* Costs and log records are left out.                                     *)
(***************************************************************************)
EXTENDS Integers, Sequences, FiniteSets, TLC

VARIABLES
    store,      \* cache directory: cache key -> entry file or NoEntry
    now,        \* wall clock, in hours
    stats,      \* EmbeddingCache._stats
    last,       \* the last cache operation and what its caller observed
    file,       \* the entry file of one key, cell by cell, while it is shared
    writer,     \* a set in progress on that file
    reader,     \* a get in progress on that file
    written,    \* the vectors handed to set for that key so far
    svc,        \* OpenAIEmbeddingService._stats
    call,       \* the embed call awaiting the provider, if any
    embedded,   \* the last embed call and what its caller observed
    engine,     \* ScorpiusRAGEngine: _stats and the cached collection handles
    chromadb,   \* the names of the collections that exist in the vector store
    pending,    \* the search awaiting its embedding, if any
    searched,   \* the last search call and what its caller observed
    calls,      \* the number of search calls that have returned or raised
    durations,  \* the durations of the searches that completed successfully
    batch,      \* the embed_batch call in progress: its position and its locals
    tasks,      \* the embed coroutines embed_batch has made, one per chunk
    time,       \* time.time(), in half seconds
    starts,     \* the times at which requests were sent to the provider
    inflight    \* the collection each request in flight is about to open

cacheVars == <<store, now, stats, last>>
raceVars == <<file, writer, reader, written>>
embedVars == <<svc, call, embedded>>
searchVars == <<engine, chromadb, pending, searched, calls, durations>>
batchVars == <<batch, tasks, time, starts>>

vars == <<store, now, stats, last, file, writer, reader, written, svc, call, embedded,
          engine, chromadb, pending, searched, calls, durations, batch, tasks, time,
          starts, inflight>>

----------------------------------------------------------------------------
(* Bounds of the model *)

MaxClock == 2
TtlHours == 1
MaxCacheSizeMb == 10
BlockMb == 4
RecordOverheadBytes == 1024
MaxRequests == 1
MaxErrors == 1
MaxEmbeds == 2
MaxSearches == 2
MaxRankCalls == 1
RateLimitDelay == 2
MaxTime == 7
MaxInFlight == 2

(* Program constants *)

LimitMax == 100
OverSampling == 2
ScoreOne == 100
max_concurrent == 3
PauseTicks == 1

MB == 1024 * 1024
EntrySizeLimit == 10 * 1024 * 1024

----------------------------------------------------------------------------
(* Values *)

NoEntry == [form |-> "none"]
Absent == [found |-> FALSE]
Found(embedding) == [found |-> TRUE, embedding |-> embedding]
NoResult == [found |-> FALSE, void |-> TRUE]

TextAB == <<"a", " ", "b">>
TextA_B == <<"a", " ", " ", "b">>
TextC == <<"c">>
TextD == <<"d">>
TextBig == <<"e">>

Models == {"large"}
OtherModel == "small"

Vec1 == <<1>>
Vec21 == <<2, 1>>
Vec111 == <<1, 1, 1>>
Vec11 == <<1, 1>>
Vec22 == <<2, 2>>
CollectionNames == {"historique_ao"}
AllCollections == {"historique_ao", "reglementaire"}

----------------------------------------------------------------------------
Min(a, b) == IF a < b THEN a ELSE b
Max(a, b) == IF a > b THEN a ELSE b

(* The context of a call for tenders, the metadata of a stored document *)

\* An Optional value: None, or the value in a one-element tuple
None == <<>>
Some(v) == <<v>>

\* no AOContext given to search
NoContext == [present |-> FALSE]

\* AOContext: the enum members by their values, estimated_amount an Optional
\* integer, technical_domains a list (None becomes [] in __post_init__),
\* organisme a string of characters, empty when None
AOContext(ao_type, sector, estimated_amount, technical_domains, organisme) ==
    [present |-> TRUE, ao_type |-> ao_type, sector |-> sector,
     estimated_amount |-> estimated_amount, technical_domains |-> technical_domains,
     organisme |-> organisme]

\* AOContext.get_amount_range
get_amount_range(estimated_amount) ==
    IF estimated_amount = None THEN "Non spécifié"
    ELSE LET amount == estimated_amount[1]
         IN IF amount < 25000 THEN "0-25k"
            ELSE IF amount < 100000 THEN "25k-100k"
            ELSE IF amount < 500000 THEN "100k-500k"
            ELSE IF amount < 1000000 THEN "500k-1M"
            ELSE IF amount < 5000000 THEN "1M-5M"
            ELSE "5M+"

\* the truth value of `context.estimated_amount`: None and 0 are false
AmountTruthy(estimated_amount) == estimated_amount # None /\ estimated_amount[1] # 0

\* str.lower on the letters the organisme strings are written with
Lower(ch) ==
    CASE ch = "C" -> "c" [] ch = "H" -> "h" [] ch = "U" -> "u" [] ch = "R" -> "r"
      [] ch = "É" -> "é" [] ch = "G" -> "g" [] ch = "I" -> "i" [] ch = "O" -> "o"
      [] ch = "N" -> "n" [] OTHER -> ch

LowerAll(s) == [i \in 1..Len(s) |-> Lower(s[i])]

\* `sub in s` on strings
IsSubstring(sub, s) ==
    \E i \in 1..(Len(s) - Len(sub) + 1) : SubSeq(s, i, i + Len(sub) - 1) = sub

\* org_types of _calculate_contextual_relevance
org_types ==
    << <<"r", "é", "g", "i", "o", "n">>,
       <<"d", "é", "p", "a", "r", "t", "e", "m", "e", "n", "t">>,
       <<"m", "i", "n", "i", "s", "t", "è", "r", "e">>,
       <<"c", "h", "u">>,
       <<"u", "n", "i", "v", "e", "r", "s", "i", "t", "é">> >>

\* the bonuses of _calculate_contextual_relevance, in hundredths
SectorBonus == 10
TypeBonus == 10
AmountBonus == 8
OrganismeBonus == 5

\* the metadata of a stored document: "" and <<>> stand for a key that is
\* missing (metadata.get gives None)
Metadata(secteur, type_ao, fourchette_montant, organisme) ==
    [secteur |-> secteur, type_ao |-> type_ao,
     fourchette_montant |-> fourchette_montant, organisme |-> organisme]

\* the organisme bonus: the first org_type found in both lower-cased strings
\* gives it, once
OrganismeMatch(metadata, context) ==
    /\ context.organisme # <<>>
    /\ metadata.organisme # <<>>
    /\ LET context_org == LowerAll(context.organisme)
           meta_org == LowerAll(metadata.organisme)
       IN \E k \in 1..Len(org_types) :
              IsSubstring(org_types[k], context_org) /\ IsSubstring(org_types[k], meta_org)

\* a faulty variant: the result is not capped at 1.0
Cap_none(score) == score

\* `min(1.0, ...)`
Cap(score) == Min(ScoreOne, score)

\* _calculate_contextual_relevance
calculate_contextual_relevance(metadata, context, base_similarity) ==
    IF ~context.present THEN base_similarity
    ELSE LET sector_bonus == IF metadata.secteur = context.sector
                             THEN SectorBonus ELSE 0
             type_bonus == IF metadata.type_ao = context.ao_type THEN TypeBonus ELSE 0
             amount_bonus ==
                 IF /\ AmountTruthy(context.estimated_amount)
                    /\ metadata.fourchette_montant # ""
                    /\ metadata.fourchette_montant
                           = get_amount_range(context.estimated_amount)
                 THEN AmountBonus ELSE 0
             organisme_bonus == IF OrganismeMatch(metadata, context)
                                THEN OrganismeBonus ELSE 0
             relevance_bonus == sector_bonus + type_bonus + amount_bonus + organisme_bonus
         IN Cap(base_similarity + relevance_bonus)

\* `sep.join(parts)`
RECURSIVE Join(_, _)
Join(parts, sep) ==
    IF parts = <<>> THEN <<>>
    ELSE IF Len(parts) = 1 THEN parts[1]
    ELSE parts[1] \o sep \o Join(Tail(parts), sep)

\* `[d.value for d in context.technical_domains]`, each value one word
DomainValues(technical_domains) ==
    [i \in 1..Len(technical_domains) |-> <<technical_domains[i]>>]

\* _enrich_query_with_context: the words of the fixed phrases and the enum
\* values are single elements of the text, as the characters of the query are
enrich_query_with_context(query, context) ==
    IF ~context.present THEN query
    ELSE LET context_parts ==
                 <<query,
                   <<"appel", " ", "offres", " ", context.ao_type>>,
                   <<"secteur", " ", context.sector>> >>
                 \o (IF AmountTruthy(context.estimated_amount)
                     THEN << <<"montant", " ", get_amount_range(context.estimated_amount)>> >>
                     ELSE <<>>)
                 \o (IF context.technical_domains # <<>>
                     THEN << <<"technologies", " ">>
                             \o Join(DomainValues(context.technical_domains), <<" ">>) >>
                     ELSE <<>>)
                 \o (IF context.organisme # <<>>
                     THEN << <<"organisme", " ">> \o context.organisme >>
                     ELSE <<>>)
         IN Join(context_parts, <<" ", "-", " ">>)

\* A filter dict is a function from its keys; a plain value v is the
\* condition Eq(v), {"$in": values} is In(values)
EmptyDict == <<>>
Eq(v) == [op |-> "$eq", value |-> <<v>>]
In(values) == [op |-> "$in", value |-> values]

\* `filters[key] = value`
Put(filters, key, value) ==
    [k \in DOMAIN filters \cup {key} |-> IF k = key THEN value ELSE filters[k]]

\* `filters.update(other)`
Update(filters, other) ==
    [k \in DOMAIN filters \cup DOMAIN other |->
        IF k \in DOMAIN other THEN other[k] ELSE filters[k]]

\* _build_metadata_filters: additional_filters is an Optional dict
build_metadata_filters(context, additional_filters) ==
    LET f0 == EmptyDict
        f1 == IF context.present THEN Put(f0, "secteur", Eq(context.sector)) ELSE f0
        f2 == IF context.present THEN Put(f1, "type_ao", Eq(context.ao_type)) ELSE f1
        f3 == IF context.present /\ AmountTruthy(context.estimated_amount)
              THEN Put(f2, "fourchette_montant",
                       Eq(get_amount_range(context.estimated_amount)))
              ELSE f2
        f4 == IF context.present /\ context.technical_domains # <<>>
              THEN Put(f3, "domaine_technique", In(context.technical_domains))
              ELSE f3
        filters == IF additional_filters # None /\ DOMAIN additional_filters[1] # {}
                   THEN Update(f4, additional_filters[1])
                   ELSE f4
    IN IF DOMAIN filters = {} THEN None ELSE Some(filters)

OrgNone == <<>>
OrgChuNantes == <<"C", "H", "U", " ", "N">>
OrgChuLille == <<"c", "h", "u", " ", "l">>
OrgRegion == <<"R", "é", "g", "i", "o", "n", " ", "B">>
OrgMairie == <<"m", "a", "i", "r", "i", "e">>

\* the contexts given to search
CtxMapa == AOContext("MAPA", "Territorial", Some(30000), <<"Data/IA">>, OrgChuNantes)
CtxZero == AOContext("MAPA", "Territorial", Some(0), <<>>, OrgNone)
SearchContexts == {NoContext, CtxMapa, CtxZero}

\* the enriched queries of the searches with a context
EnrichedTexts ==
    <<enrich_query_with_context(TextC, CtxMapa), enrich_query_with_context(TextC, CtxZero)>>

----------------------------------------------------------------------------
(* EmbeddingCache: pure helpers *)

IsSpace(ch) == ch \in {" ", "\t", "\n"}

RECURSIVE SplitWords(_, _, _)
SplitWords(s, cur, acc) ==
    IF s = <<>>
    THEN IF cur = <<>> THEN acc ELSE Append(acc, cur)
    ELSE IF IsSpace(Head(s))
         THEN SplitWords(Tail(s), <<>>, IF cur = <<>> THEN acc ELSE Append(acc, cur))
         ELSE SplitWords(Tail(s), Append(cur, Head(s)), acc)

RECURSIVE JoinWords(_)
JoinWords(ws) ==
    IF ws = <<>> THEN <<>>
    ELSE IF Len(ws) = 1 THEN ws[1]
    ELSE ws[1] \o <<" ">> \o JoinWords(Tail(ws))

\* " ".join(text.split())
Normalize(text) == JoinWords(SplitWords(text, <<>>, <<>>))

\* hashlib.sha256(f"{normalized_text}|{model}")
get_cache_key(text, model) == <<"sha256", Normalize(text), model>>

\* hashlib.md5(text.encode()).hexdigest()
Md5(text) == <<"md5", text>>

\* len(pickle.dumps(embedding))
SerializedSize(embedding) == Len(embedding) * BlockMb * MB

\* size of the entry file: the pickled record around the vector
FileSize(embedding) == SerializedSize(embedding) + RecordOverheadBytes

Present(st) == {k \in DOMAIN st : st[k] # NoEntry}

RECURSIVE SumSizes(_, _)
SumSizes(st, ks) ==
    IF ks = {} THEN 0
    ELSE LET k == CHOOSE x \in ks : TRUE
         IN st[k].size + SumSizes(st, ks \ {k})

\* _get_cache_size_mb, in bytes
get_cache_size(st) == SumSizes(st, Present(st))

\* a faulty variant: the expiry test with <= for <
is_cache_entry_valid_inclusive(st, k, clock) ==
    /\ st[k] # NoEntry
    /\ clock <= st[k].mtime + TtlHours

\* _is_cache_entry_valid: the file exists and is younger than the TTL
is_cache_entry_valid(st, k, clock) ==
    /\ st[k] # NoEntry
    /\ clock < st[k].mtime + TtlHours

\* a faulty variant: the content hash is not compared
validate_cache_data_unhashed(e, text, model) ==
    /\ e.form = "ok"
    /\ e.model = model
    /\ e.embedding # <<>>

\* _validate_cache_data.  Forms of the unpickled payload: "ok" is a dict with
\* the required keys and a list of numbers; "missing_key" lacks a required key;
\* "not_dict" is a value on which the key test raises TypeError, which the
\* function catches and answers False.
validate_cache_data(e, text, model) ==
    /\ e.form = "ok"
    /\ e.model = model
    /\ e.text_hash = Md5(text)
    /\ e.embedding # <<>>

----------------------------------------------------------------------------
(* EmbeddingCache: capacity eviction *)

SeqPerms(S) ==
    {o \in [1..Cardinality(S) -> S] : \A i, j \in 1..Cardinality(S) : i # j => o[i] # o[j]}

\* a faulty variant: the files sorted newest first
EvictionOrders_newest_first(st) ==
    {o \in SeqPerms(Present(st)) :
        \A i, j \in 1..Len(o) : i < j => st[o[i]].mtime >= st[o[j]].mtime}

\* The orders in which _cleanup_oldest_entries may visit the files: the
\* directory scan (rglob) lists them in an arbitrary order and the sort by
\* st_mtime is stable, so files with equal mtime keep the scan's order.
EvictionOrders(st) ==
    {o \in SeqPerms(Present(st)) :
        \A i, j \in 1..Len(o) : i < j => st[o[i]].mtime <= st[o[j]].mtime}

\* a faulty variant: a target above the maximum
CleanupTarget10_above_max == MaxCacheSizeMb * MB * 12

\* target_size_mb = max_cache_size_mb * 0.8, as tenths of a byte
CleanupTarget10 == MaxCacheSizeMb * MB * 8

\* the loop of _cleanup_oldest_entries from position i on; `failing` are the
\* files whose unlink raises OSError
RECURSIVE cleanup_oldest_entries(_, _, _, _, _, _)
cleanup_oldest_entries(st, order, i, current, failing, evicted) ==
    IF i > Len(order) \/ current * 10 <= CleanupTarget10
    THEN [store |-> st, evicted |-> evicted]
    ELSE LET k == order[i]
         IN IF k \in failing
            THEN cleanup_oldest_entries(st, order, i + 1, current, failing, evicted)
            ELSE cleanup_oldest_entries(
                     [st EXCEPT ![k] = NoEntry], order, i + 1, current - st[k].size, failing,
                     Append(evicted, [key |-> k, mtime |-> st[k].mtime, size |-> st[k].size]))

\* _cleanup_if_needed; scanFails: the directory scan raises, which is logged
cleanup_if_needed(st, order, scanFails, failing) ==
    IF scanFails \/ ~(get_cache_size(st) > MaxCacheSizeMb * MB)
    THEN [store |-> st, evicted |-> <<>>]
    ELSE cleanup_oldest_entries(st, order, 1, get_cache_size(st), failing, <<>>)

----------------------------------------------------------------------------
(* EmbeddingCache: operations *)

AllTexts == {TextAB, TextA_B, TextC, TextD, TextBig} \cup {EnrichedTexts[i] : i \in 1..Len(EnrichedTexts)}
CacheKeys == {get_cache_key(t, m) : t \in AllTexts, m \in Models}

InitStats == [total_requests |-> 0, cache_hits |-> 0, cache_misses |-> 0, cache_errors |-> 0]

NoOp == [op |-> "init", text |-> <<>>, model |-> "", emb |-> <<>>, result |-> NoResult,
         raised |-> "none", pre |-> NoEntry, evicted |-> <<>>, fault |-> "none", at |-> 0]

CacheInit ==
    /\ store = [k \in CacheKeys |-> NoEntry]
    /\ now = 0
    /\ stats = InitStats
    /\ last = NoOp

NoFile == [exists |-> FALSE, cells |-> <<>>]
IdleWriter == [pc |-> "idle", cells |-> <<>>, off |-> 0, orphan |-> FALSE]
IdleReader == [pc |-> "idle", text |-> <<>>, model |-> "", buf |-> <<>>]

RaceInit ==
    /\ file = NoFile
    /\ writer = IdleWriter
    /\ reader = IdleReader
    /\ written = {}

InitSvc == [total_requests |-> 0, cache_hits |-> 0, api_calls |-> 0, errors |-> 0,
            total_tokens |-> 0, last_request_time |-> 0]
NoCall == [pc |-> "idle", owner |-> "", single |-> FALSE, texts |-> <<>>, model |-> "",
           use_cache |-> FALSE, cached |-> <<>>, to_process |-> <<>>, mapping |-> <<>>,
           cache_before |-> <<>>]
NoEmbed == [op |-> "init", single |-> FALSE, texts |-> <<>>, use_cache |-> FALSE,
            final |-> <<>>, raised |-> "none", order |-> <<>>, obtained |-> <<>>,
            fault |-> "none", failure |-> <<>>, error |-> <<>>, cache_before |-> <<>>,
            stored |-> <<>>]

\* OpenAIEmbeddingService.__init__
EmbedInit ==
    /\ svc = InitSvc
    /\ call = NoCall
    /\ embedded = NoEmbed

NoSearch == [op |-> "none", query |-> <<>>, collection |-> "", limit |-> 0,
             min_score |-> 0, raised |-> "none", wrapped |-> FALSE, results |-> <<>>]

\* a mean kept as a fraction
Zero == [num |-> 0, den |-> 1]

\* ScorpiusRAGEngine.__init__
SearchInit ==
    /\ engine = [total_searches |-> 0, collections_created |-> 0, collections |-> {},
                 handles |-> [n \in AllCollections |-> None], opened |-> 0,
                 cache_hits |-> 0, embed_requests |-> 0, avg_search_time_ms |-> Zero]
    /\ pending = NoSearch
    /\ searched = NoSearch
    /\ calls = 0
    /\ durations = <<>>

\* time.time() when the service is constructed; _last_request_time is 0.0
Epoch == RateLimitDelay

NoBatch == [pc |-> "idle", texts |-> <<>>, batch_size |-> 0, use_cache |-> FALSE,
            i |-> 0, wave |-> 0, wake |-> 0, pauses |-> 0, all_embeddings |-> <<>>,
            raised |-> "none"]

BatchInit ==
    /\ batch = NoBatch
    /\ tasks = <<>>
    /\ time = Epoch
    /\ starts = <<>>

\* the requests that can be in flight on one engine, and for each its
\* position, the collection it needs and what the accessor gave it
Requests == 1..MaxInFlight

NoRequest == [pc |-> "idle", name |-> "", peers |-> {}, was_cached |-> FALSE,
              handle |-> None, raised |-> FALSE, store_calls |-> 0]

FlightInit == inflight = [r \in Requests |-> NoRequest]

\* the state after construction, with an empty vector store
Init ==
    /\ CacheInit /\ RaceInit /\ EmbedInit /\ SearchInit /\ BatchInit /\ FlightInit
    /\ chromadb = {}

\* the state after construction, with any collections in the vector store
InitAnyStore ==
    /\ CacheInit /\ RaceInit /\ EmbedInit /\ SearchInit /\ BatchInit /\ FlightInit
    /\ chromadb \in SUBSET CollectionNames

NewEntry(text, model, embedding, clock) ==
    [form |-> "ok", text |-> text, model |-> model, embedding |-> embedding,
     text_hash |-> Md5(text), mtime |-> clock, size |-> FileSize(embedding)]

\* what open(file_path, 'wb') followed by a failing pickle.dump leaves behind
PartialEntry(text, model, embedding, clock) ==
    [form |-> "garbled", text |-> text, model |-> model, embedding |-> embedding,
     text_hash |-> Md5(text), mtime |-> clock, size |-> RecordOverheadBytes]

SetFaults == {"none", "mkdir", "open", "dump", "scan", "unlink"}

\* the exception raised inside the try block of set, in the order of its
\* statements: mkdir, the size check, open, pickle.dump
SetException(embedding, fault) ==
    IF fault = "mkdir" THEN "OSError"
    ELSE IF SerializedSize(embedding) > EntrySizeLimit THEN "CacheError"
    ELSE IF fault \in {"open", "dump"} THEN "OSError"
    ELSE "none"

\* a faulty variant: the handler re-raises whatever it caught
SetPropagates_everything(exc) == exc # "none"

\* set's handler: `if isinstance(e, CacheError): raise`
SetPropagates(exc) == exc = "CacheError"

\* The ways one call of EmbeddingCache.set can end, one per order in which
\* the eviction may visit the files.  fault: the I/O call that raises during
\* this call.
set_outcomes(st, cs, clock, text, model, embedding, fault) ==
    LET k == get_cache_key(text, model)
        exc == SetException(embedding, fault)
        saved == IF exc = "none"
                   THEN [st EXCEPT ![k] = NewEntry(text, model, embedding, clock)]
                   ELSE IF exc = "OSError" /\ fault = "dump"
                        THEN [st EXCEPT ![k] = PartialEntry(text, model, embedding, clock)]
                        ELSE st
        cleaned(order) == IF exc # "none" THEN [store |-> saved, evicted |-> <<>>]
                          ELSE cleanup_if_needed(saved, order, fault = "scan",
                                   IF fault = "unlink" THEN Present(saved) ELSE {})
    IN {[store |-> cleaned(order).store,
         stats |-> IF exc # "none" THEN [cs EXCEPT !.cache_errors = @ + 1] ELSE cs,
         raised |-> IF SetPropagates(exc) THEN exc ELSE "none",
         evicted |-> cleaned(order).evicted] : order \in EvictionOrders(saved)}

\* EmbeddingCache.set
Set(text, model, embedding, fault) ==
    /\ SetException(embedding, fault) # "none" => stats.cache_errors < MaxErrors
    /\ \E r \in set_outcomes(store, stats, now, text, model, embedding, fault) :
          /\ store' = r.store
          /\ stats' = r.stats
          /\ last' = [op |-> "set", text |-> text, model |-> model, emb |-> embedding,
                      result |-> NoResult, raised |-> r.raised,
                      pre |-> store[get_cache_key(text, model)], evicted |-> r.evicted,
                      fault |-> fault, at |-> now]
    /\ UNCHANGED <<now, raceVars, batchVars, inflight, embedVars, searchVars>>

GetFaults == {"none", "stat", "unlink"}

\* the path EmbeddingCache.get takes: "miss" (absent or expired), "invalid"
\* (validation failed, file unlinked), "hit", or the exception raised inside
\* its try block
GetPath(st, clock, text, model, fault) ==
    LET k == get_cache_key(text, model)
    IN IF fault = "stat" \/ ~is_cache_entry_valid(st, k, clock) THEN "miss"
       ELSE IF st[k].form = "unreadable" THEN "PermissionError"
       ELSE IF st[k].form = "garbled" THEN "UnpicklingError"
       ELSE IF ~validate_cache_data(st[k], text, model)
            THEN IF fault = "unlink" THEN "OSError" ELSE "invalid"
       ELSE "hit"

GetExceptions == {"PermissionError", "UnpicklingError", "OSError"}

\* a faulty variant: the handler catches OSError only
GetCatches_oserror_only(exc) == exc \in {"PermissionError", "OSError"}

\* get's handler: `except Exception` returns None
GetCatches(exc) == exc \in GetExceptions

\* one call of EmbeddingCache.get: the store and the counters it leaves, what
\* it returns and what it raises
get(st, cs, clock, text, model, fault) ==
    LET k == get_cache_key(text, model)
        path == GetPath(st, clock, text, model, fault)
        failed == path \in GetExceptions
    IN [store |-> IF path = "invalid" THEN [st EXCEPT ![k] = NoEntry] ELSE st,
        stats |-> [cs EXCEPT
                      !.total_requests = @ + 1,
                      !.cache_hits = IF path = "hit" THEN @ + 1 ELSE @,
                      !.cache_misses = IF path \in {"miss", "invalid"} THEN @ + 1 ELSE @,
                      !.cache_errors = IF failed THEN @ + 1 ELSE @],
        result |-> IF path = "hit" THEN Found(st[k].embedding) ELSE Absent,
        raised |-> IF failed /\ ~GetCatches(path) THEN path ELSE "none"]

\* EmbeddingCache.get
Get(text, model, fault) ==
    LET r == get(store, stats, now, text, model, fault)
    IN /\ GetPath(store, now, text, model, fault) \in GetExceptions
             => stats.cache_errors < MaxErrors
       /\ store' = r.store
       /\ stats' = r.stats
       /\ last' = [op |-> "get", text |-> text, model |-> model, emb |-> <<>>,
                   result |-> r.result, raised |-> r.raised,
                   pre |-> store[get_cache_key(text, model)], evicted |-> <<>>,
                   fault |-> fault, at |-> now]
       /\ UNCHANGED <<now, raceVars, batchVars, inflight, embedVars, searchVars>>

\* time passes
Tick ==
    /\ now < MaxClock
    /\ now' = now + 1
    /\ UNCHANGED <<store, stats, last, raceVars, batchVars, inflight, embedVars, searchVars>>

\* EmbeddingCache.clear_cache: every entry file is unlinked, those of
\* `failing` excepted, whose unlink raises OSError, and _stats is replaced
\* by a new dictionary of zeros; when the walk of the directory raises,
\* CacheError is raised and nothing else is done
Clear(failing, scanFails) ==
    /\ failing \subseteq Present(store)
    /\ store' = IF scanFails THEN store
                ELSE [k \in DOMAIN store |-> IF k \in failing THEN store[k] ELSE NoEntry]
    /\ stats' = IF scanFails THEN stats ELSE InitStats
    /\ last' = [NoOp EXCEPT !.op = "clear", !.at = now,
                            !.raised = IF scanFails THEN "CacheError" ELSE "none"]
    /\ UNCHANGED <<now, raceVars, batchVars, inflight, embedVars, searchVars>>

TamperKinds == {"hash", "model", "garble", "drop_key", "not_dict", "empty", "unreadable"}

\* the entry file of key k is altered on disk behind the cache's back
Intact(e) ==
    /\ e.form = "ok"
    /\ e.text_hash = Md5(e.text)
    /\ e.model \in Models
    /\ e.embedding # <<>>

Tamper(k, kind) ==
    /\ store[k] # NoEntry
    /\ \A j \in Present(store) : Intact(store[j])
    /\ store' = [store EXCEPT ![k] =
                    CASE kind = "hash" -> [@ EXCEPT !.text_hash = <<"md5", <<"?">>>>]
                      [] kind = "model" -> [@ EXCEPT !.model = OtherModel]
                      [] kind = "garble" -> [@ EXCEPT !.form = "garbled"]
                      [] kind = "drop_key" -> [@ EXCEPT !.form = "missing_key"]
                      [] kind = "not_dict" -> [@ EXCEPT !.form = "not_dict"]
                      [] kind = "empty" -> [@ EXCEPT !.embedding = <<>>]
                      [] kind = "unreadable" -> [@ EXCEPT !.form = "unreadable"]]
    /\ last' = [NoOp EXCEPT !.op = "tamper", !.at = now]
    /\ UNCHANGED <<now, stats, raceVars, batchVars, inflight, embedVars, searchVars>>

----------------------------------------------------------------------------
(* One cache key under a well-behaved file system (no I/O call fails): two  *)
(* raw texts with the same normalised form, every way of altering the file. *)

SetInputs == {<<TextAB, Vec1>>, <<TextAB, Vec21>>, <<TextA_B, Vec1>>, <<TextAB, Vec111>>}
GetInputs == {TextAB, TextA_B}
TamperKeys == {get_cache_key(TextAB, m) : m \in Models}

NextCache ==
    \/ \E in \in SetInputs, m \in Models : Set(in[1], m, in[2], "none")
    \/ \E t \in GetInputs, m \in Models : stats.total_requests < MaxRequests /\ Get(t, m, "none")
    \/ Tick
    \/ \E k \in TamperKeys, kind \in TamperKinds : Tamper(k, kind)

SpecCache == Init /\ [][NextCache]_vars

(* Three cache keys filling the cache beyond its maximum size *)

CapacitySetInputs ==
    {<<TextAB, Vec1>>, <<TextAB, Vec21>>, <<TextC, Vec1>>, <<TextC, Vec21>>, <<TextD, Vec1>>}
CapacityGetInputs == {TextAB, TextC}

NextCapacity ==
    \/ \E in \in CapacitySetInputs, m \in Models : Set(in[1], m, in[2], "none")
    \/ \E t \in CapacityGetInputs, m \in Models :
          stats.total_requests < MaxRequests /\ Get(t, m, "none")
    \/ Tick

SpecCapacity == Init /\ [][NextCapacity]_vars

(* The cache when I/O calls may fail; no time passes *)

FaultSetInputs == {<<TextAB, Vec1>>, <<TextC, Vec21>>, <<TextC, Vec111>>}
FaultGetInputs == {TextAB}
FaultTamperKinds == {"hash", "garble", "unreadable"}

NextCacheFaults ==
    \/ \E in \in FaultSetInputs, m \in Models, f \in SetFaults : Set(in[1], m, in[2], f)
    \/ \E t \in FaultGetInputs, m \in Models, f \in GetFaults :
          stats.total_requests < MaxRequests /\ Get(t, m, f)
    \/ \E k \in TamperKeys, kind \in FaultTamperKinds : Tamper(k, kind)

SpecCacheFaults == Init /\ [][NextCacheFaults]_vars

----------------------------------------------------------------------------
(* A get and a set running concurrently on one entry file.  set writes the  *)
(* file in place (open 'wb' truncates it, pickle.dump then writes it piece  *)
(* by piece); get reads it piece by piece through its own descriptor.  The  *)
(* pieces are cells: a head with the text and the model, one cell per      *)
(* element of the vector, a tail with the checksum.  The vectors of one     *)
(* model have one dimension, so the records of a key have one layout.       *)

\* pickle.dump(cache_data, f): the cells of the record
Serialize(text, model, embedding) ==
    <<[kind |-> "head", text |-> text, model |-> model]>>
    \o [i \in 1..Len(embedding) |-> [kind |-> "float", v |-> embedding[i]]]
    \o <<[kind |-> "tail", text_hash |-> Md5(text)]>>

\* pickle.load(f) on cells read up to a tail: the payload they decode to
Deserialize(cells) ==
    LET n == Len(cells)
    IN [form |-> "ok", text |-> cells[1].text, model |-> cells[1].model,
        embedding |-> [i \in 1..(n - 2) |-> cells[i + 1].v],
        text_hash |-> cells[n].text_hash]

\* the unpickler has reached the end of the record (the STOP opcode)
RecordRead(cells) == IF cells = <<>> THEN FALSE ELSE cells[Len(cells)].kind = "tail"

\* set up to open(file_path, 'wb'): the key, mkdir, the size check and the
\* open, which creates the file or truncates it
WriteOpen(text, model, embedding) ==
    /\ writer.pc = "idle"
    /\ SerializedSize(embedding) <= EntrySizeLimit
    /\ file' = [exists |-> TRUE, cells |-> <<>>]
    /\ writer' = [pc |-> "writing", cells |-> Serialize(text, model, embedding),
                  off |-> 0, orphan |-> FALSE]
    /\ written' = written \cup {embedding}
    /\ UNCHANGED <<reader, cacheVars, embedVars, searchVars, batchVars, inflight>>

\* pickle.dump writes the next piece at the descriptor's offset
WriteChunk ==
    /\ writer.pc = "writing"
    /\ writer.off < Len(writer.cells)
    /\ writer' = [writer EXCEPT !.off = @ + 1]
    /\ file' = IF writer.orphan THEN file
               ELSE [file EXCEPT !.cells = Append(@, writer.cells[writer.off + 1])]
    /\ UNCHANGED <<reader, written, cacheVars, embedVars, searchVars, batchVars, inflight>>

\* the file is closed and set returns; one entry is below the maximum size,
\* so _cleanup_if_needed evicts nothing
WriteClose ==
    /\ writer.pc = "writing"
    /\ writer.off = Len(writer.cells)
    /\ writer' = IdleWriter
    /\ UNCHANGED <<file, reader, written, cacheVars, embedVars, searchVars, batchVars, inflight>>

\* get up to open(file_path, 'rb'): a miss when the file does not exist
ReadOpen(text, model) ==
    /\ reader.pc = "idle"
    /\ stats.total_requests < MaxRequests
    /\ IF file.exists
       THEN /\ reader' = [pc |-> "reading", text |-> text, model |-> model, buf |-> <<>>]
            /\ stats' = [stats EXCEPT !.total_requests = @ + 1]
            /\ last' = last
       ELSE /\ reader' = IdleReader
            /\ stats' = [stats EXCEPT !.total_requests = @ + 1, !.cache_misses = @ + 1]
            /\ last' = [NoOp EXCEPT !.op = "get", !.text = text, !.model = model,
                                    !.result = Absent, !.at = now]
    /\ UNCHANGED <<store, now, file, writer, written, embedVars, searchVars, batchVars, inflight>>

\* pickle.load reads the next piece at its own offset: past the end of the
\* file it raises EOFError, which get catches
ReadChunk ==
    /\ reader.pc = "reading"
    /\ ~RecordRead(reader.buf)
    /\ IF Len(reader.buf) < Len(file.cells)
       THEN /\ reader' = [reader EXCEPT !.buf = Append(@, file.cells[Len(reader.buf) + 1])]
            /\ UNCHANGED <<stats, last>>
       ELSE /\ reader' = IdleReader
            /\ stats' = [stats EXCEPT !.cache_errors = @ + 1]
            /\ last' = [NoOp EXCEPT !.op = "get", !.text = reader.text,
                                    !.model = reader.model, !.result = Absent,
                                    !.fault = "EOFError", !.at = now]
    /\ UNCHANGED <<store, now, file, writer, written, embedVars, searchVars, batchVars, inflight>>

\* the record is read: validation, then a hit, or unlink and a miss
ReadClose ==
    /\ reader.pc = "reading"
    /\ RecordRead(reader.buf)
    /\ LET data == Deserialize(reader.buf)
           valid == validate_cache_data(data, reader.text, reader.model)
       IN /\ file' = IF valid THEN file ELSE NoFile
          /\ writer' = IF ~valid /\ writer.pc = "writing"
                       THEN [writer EXCEPT !.orphan = TRUE] ELSE writer
          /\ stats' = IF valid THEN [stats EXCEPT !.cache_hits = @ + 1]
                      ELSE [stats EXCEPT !.cache_misses = @ + 1]
          /\ last' = [NoOp EXCEPT !.op = "get", !.text = reader.text,
                                  !.model = reader.model,
                                  !.result = IF valid THEN Found(data.embedding) ELSE Absent,
                                  !.at = now]
    /\ reader' = IdleReader
    /\ UNCHANGED <<store, now, written, embedVars, searchVars, batchVars, inflight>>

RaceSetInputs == {<<TextAB, Vec11>>, <<TextAB, Vec22>>, <<TextA_B, Vec22>>}
RaceGetInputs == {TextAB}

NextRace ==
    \/ \E in \in RaceSetInputs, m \in Models : WriteOpen(in[1], m, in[2])
    \/ WriteChunk
    \/ WriteClose
    \/ \E t \in RaceGetInputs, m \in Models : ReadOpen(t, m)
    \/ ReadChunk
    \/ ReadClose

SpecRace == Init /\ [][NextRace]_vars

----------------------------------------------------------------------------
(* OpenAIEmbeddingService *)

TextBlank == <<" ">>
EmbedTexts == <<TextAB, TextC, TextD, TextA_B, TextBig>> \o EnrichedTexts

\* the vector the provider computes for a text; the vector of TextBig is
\* too large for an entry of the cache
Emb(text) ==
    LET v == <<CHOOSE i \in 1..Len(EmbedTexts) : EmbedTexts[i] = text>>
    IN IF text = TextBig THEN v \o <<0, 0>> ELSE v

\* usage.total_tokens of a request
RECURSIVE Tokens(_, _)
Tokens(texts, i) == IF i > Len(texts) THEN 0 ELSE Len(texts[i]) + Tokens(texts, i + 1)

\* `not text.strip()`
IsBlank(text) == \A i \in 1..Len(text) : IsSpace(text[i])

\* embed's validation: `not text_list or any(not text.strip() ...)`
EmbedInvalid(texts) == texts = <<>> \/ \E i \in 1..Len(texts) : IsBlank(texts[i])

\* embed's cache lookup loop from position i on.  cached: pairs <<position,
\* vector>>; to_process: the missed texts; mapping: cache_mapping, from the
\* position in to_process to the position in the input
RECURSIVE lookup(_, _, _, _, _, _)
\* a faulty variant: the cache is not consulted, every text is sent
lookup_all_missed(texts, model, i, st, cs, acc) ==
    [store |-> st, stats |-> cs, cached |-> <<>>, to_process |-> texts,
     mapping |-> [j \in 1..Len(texts) |-> j]]

lookup(texts, model, i, st, cs, acc) ==
    IF i > Len(texts)
    THEN [store |-> st, stats |-> cs, cached |-> acc.cached,
          to_process |-> acc.to_process, mapping |-> acc.mapping]
    ELSE LET r == get(st, cs, now, texts[i], model, "none")
         IN lookup(texts, model, i + 1, r.store, r.stats,
                IF r.result.found /\ r.result.embedding # <<>>
                THEN [acc EXCEPT !.cached = Append(@, <<i, r.result.embedding>>)]
                ELSE [acc EXCEPT !.to_process = Append(@, texts[i]),
                                 !.mapping = Append(@, i)])

NoLookup(texts) ==
    [store |-> store, stats |-> stats, cached |-> <<>>, to_process |-> texts,
     mapping |-> [i \in 1..Len(texts) |-> i]]

\* a faulty variant: the handler around cache.set catches OSError only
SetFailureLogged_oserror_only(exc) == exc = "OSError"

\* embed's handler around cache.set: `except Exception` logs a warning
SetFailureLogged(exc) == exc # "none"

\* a faulty variant: each text is looked up again before its vector is stored
RECURSIVE write_back_recheck(_, _, _, _, _, _)
write_back_recheck(texts, model, embeddings, i, outs, fault) ==
    IF i > Len(texts) \/ i > Len(embeddings) THEN outs
    ELSE write_back_recheck(texts, model, embeddings, i + 1,
             UNION {LET g == get(o.store, o.stats, now, texts[i], model, "none")
                    IN {[store |-> r.store, stats |-> r.stats, raised |-> "none",
                         stored |-> Append(o.stored, texts[i])] :
                           r \in set_outcomes(g.store, g.stats, now, texts[i], model,
                                              embeddings[i], fault)} : o \in outs},
             fault)

\* a faulty variant: the new vectors are not stored
write_back_skipped(texts, model, embeddings, i, outs, fault) == outs

\* embed's write-back loop from position i on: the stores and counters it can
\* leave and the texts handed to set; an error raised by set is logged and
\* the loop goes on, an error that is not caught ends embed.  fault: the I/O
\* call that raises in set
RECURSIVE write_back(_, _, _, _, _, _)
write_back(texts, model, embeddings, i, outs, fault) ==
    IF i > Len(texts) \/ i > Len(embeddings) THEN outs
    ELSE write_back(texts, model, embeddings, i + 1,
             UNION {IF o.raised # "none" THEN {o}
                    ELSE {[store |-> r.store, stats |-> r.stats,
                           raised |-> IF SetFailureLogged(r.raised) THEN "none"
                                      ELSE r.raised,
                           stored |-> Append(o.stored, texts[i])] :
                             r \in set_outcomes(o.store, o.stats, now, texts[i], model,
                                                embeddings[i], fault)} : o \in outs},
             fault)

\* _call_openai_api: `[data.embedding for data in response.data]`
extract_embeddings(data) == [j \in 1..Len(data) |-> data[j].embedding]

\* the reconstruction of the final list: the cached vectors at their
\* positions, then the new vectors through cache_mapping
Reassemble(n, cached, new_embeddings, mapping) ==
    [p \in 1..n |->
        IF \E j \in 1..Len(new_embeddings) : mapping[j] = p
        THEN new_embeddings[CHOOSE j \in 1..Len(new_embeddings) : mapping[j] = p]
        ELSE IF \E c \in 1..Len(cached) : cached[c][1] = p
             THEN cached[CHOOSE c \in 1..Len(cached) : cached[c][1] = p][2]
             ELSE <<>>]

\* get_performance_stats: the counters with the computed cache_hit_rate, a
\* fraction, 0.0 when no request is counted
get_performance_stats(s) ==
    [total_requests |-> s.total_requests, cache_hits |-> s.cache_hits,
     api_calls |-> s.api_calls, errors |-> s.errors,
     cache_hit_rate |-> IF s.total_requests > 0
                        THEN [num |-> s.cache_hits, den |-> s.total_requests]
                        ELSE Zero]

\* embed up to its first await: the cache lookups and, when every text is a
\* hit, the whole call; otherwise _call_openai_api up to the request
begin_embed(owner, single, texts, use_cache) ==
    LET model == CHOOSE m \in Models : TRUE
        look == IF use_cache
                THEN lookup(texts, model, 1, store, stats,
                         [cached |-> <<>>, to_process |-> <<>>, mapping |-> <<>>])
                ELSE NoLookup(texts)
        hits == Len(look.cached)
        done == look.to_process = <<>>
    IN [store |-> look.store,
        stats |-> look.stats,
        done |-> done,
        svc |-> IF done
                THEN [svc EXCEPT !.cache_hits = @ + hits, !.total_requests = @ + 1]
                ELSE [svc EXCEPT !.cache_hits = @ + hits, !.api_calls = @ + 1],
        final |-> Reassemble(Len(texts), look.cached, <<>>, look.mapping),
        call |-> [pc |-> "awaiting", owner |-> owner, single |-> single, texts |-> texts,
                  model |-> model, use_cache |-> use_cache, cached |-> look.cached,
                  to_process |-> look.to_process, mapping |-> look.mapping,
                  cache_before |-> store]]

\* what the caller of embed observes: the arguments, the list returned or
\* the error raised; with them the answer or the failure of the provider,
\* the I/O call that failed during the write-back, the cache directory as
\* it was when embed was called and the texts handed to cache.set
EmbedRecord(single, texts, use_cache, final, raised, order) ==
    [NoEmbed EXCEPT !.op = "embed", !.single = single, !.texts = texts,
                    !.use_cache = use_cache, !.final = final, !.raised = raised,
                    !.order = order]

\* an exception raised by client.embeddings.create.  response: it has a
\* response with a json method; body: what response.json() gives, "error"
\* for a payload {"error": {"type": .., "code": ..}}, "not_json" when it
\* raises ValueError, "no_detail" for a payload whose "error" is not a dict
Failure(response, body, status_code, type, code) ==
    [response |-> response, body |-> body, status_code |-> status_code, type |-> type,
     code |-> code]

\* a connection error: no response
ConnectionFailure == Failure(FALSE, "none", 0, "", "")

\* OpenAIError(message, status_code=.., error_code=..)
OpenAIError(status_code, error_code) ==
    [status_code |-> status_code, error_code |-> error_code, api_provider |-> "OpenAI"]

\* APIError.is_retryable
is_retryable(error) ==
    IF error.status_code # None /\ error.status_code[1] # 0
    THEN error.status_code[1] >= 500 \/ error.status_code[1] = 429
    ELSE FALSE

\* APIError.is_authentication_error
is_authentication_error(error) == error.status_code \in {Some(401), Some(403)}

\* APIError.is_rate_limited
is_rate_limited(error) == error.status_code = Some(429)

\* OpenAIError.is_quota_exceeded
is_quota_exceeded(error) == error.error_code = "OPENAI_QUOTA_EXCEEDED"

\* str.upper on the error types of the provider
Upper(type) ==
    CASE type = "invalid_request_error" -> "INVALID_REQUEST_ERROR"
      [] type = "insufficient_quota" -> "INSUFFICIENT_QUOTA"
      [] type = "server_error" -> "SERVER_ERROR"
      [] type = "unknown" -> "UNKNOWN"

\* OpenAIError.from_openai_response.  The default of code_mapping.get,
\* f"OPENAI_{error_type.upper()}", is computed whatever the code is.
from_openai_response(type, code, status_code) ==
    OpenAIError(Some(status_code),
        CASE code = "insufficient_quota" -> "OPENAI_QUOTA_EXCEEDED"
          [] code = "rate_limit_exceeded" -> "OPENAI_RATE_LIMIT"
          [] code = "invalid_api_key" -> "OPENAI_AUTH_ERROR"
          [] code = "model_not_found" -> "OPENAI_MODEL_ERROR"
          [] code = "context_length_exceeded" -> "OPENAI_CONTEXT_ERROR"
          [] OTHER -> "OPENAI_" \o Upper(type))

\* the except block of _call_openai_api: the error built from the payload
\* of the response when there is one that parses, the generic error
\* otherwise
translate_failure(failure) ==
    IF failure.response /\ failure.body = "error" /\ failure.type # "null"
    THEN from_openai_response(failure.type, failure.code, failure.status_code)
    ELSE OpenAIError(None, "OPENAI_ERROR")

\* the effect of begin_embed on the cache and on the client
BeginEmbedEffect(b, single, texts, use_cache) ==
    /\ store' = b.store
    /\ stats' = b.stats
    /\ last' = IF use_cache THEN [NoOp EXCEPT !.op = "embed", !.at = now] ELSE last
    /\ svc' = b.svc
    /\ call' = IF b.done THEN NoCall ELSE b.call
    /\ embedded' = IF b.done
                   THEN [EmbedRecord(single, texts, use_cache, b.final, "none", <<>>)
                            EXCEPT !.cache_before = store]
                   ELSE embedded

\* OpenAIEmbeddingService.embed, called directly
EmbedStart(single, texts, use_cache) ==
    /\ call.pc = "idle"
    /\ svc.total_requests < MaxEmbeds
    /\ IF EmbedInvalid(texts)
       THEN /\ embedded' = [EmbedRecord(single, texts, use_cache, <<>>,
                                  "ValidationError", <<>>)
                                 EXCEPT !.cache_before = store]
            /\ UNCHANGED <<store, stats, last, svc, call>>
       ELSE BeginEmbedEffect(begin_embed("caller", single, texts, use_cache),
                single, texts, use_cache)
    /\ UNCHANGED <<now, raceVars, batchVars, inflight, searchVars>>

----------------------------------------------------------------------------
(* ScorpiusRAGEngine.search.  Scores and distances are in hundredths.  The  *)
(* searches of this model pass no context and no filters.                   *)

\* a faulty variant: the upper bound of limit taken as exclusive
LimitOutOfRange_exclusive(limit) == limit <= 0 \/ limit >= LimitMax

\* `limit <= 0 or limit > 100`
LimitOutOfRange(limit) == limit <= 0 \/ limit > LimitMax

\* the validation at the head of search: the name of the rejected field
SearchValidation(query, limit, min_score) ==
    IF query = <<>> \/ IsBlank(query) THEN "query"
    ELSE IF LimitOutOfRange(limit) THEN "limit"
    ELSE IF ~(0 <= min_score /\ min_score <= ScoreOne) THEN "min_similarity_score"
    ELSE "ok"

\* a faulty variant: the results are sorted by similarity alone
SortKey_similarity(r) == r.similarity_score

\* the sort key `r.relevance_score or r.similarity_score`
SortKey(r) == IF r.relevance_score # 0 THEN r.relevance_score ELSE r.similarity_score

\* a faulty variant: the results are left in the order of the response
SortedDesc_unsorted(rs, i, acc) == rs

\* list.sort(key, reverse=True): descending and stable
RECURSIVE SortedDesc(_, _, _)
SortedDesc(rs, i, acc) ==
    IF i > Len(rs) THEN acc
    ELSE LET r == rs[i]
             before == {j \in 1..Len(acc) : SortKey(acc[j]) >= SortKey(r)}
             n == Cardinality(before)
         IN SortedDesc(rs, i + 1, SubSeq(acc, 1, n) \o <<r>> \o SubSeq(acc, n + 1, Len(acc)))

\* `max(0.0, 1.0 - distance)`
Similarity(distance) == Max(0, ScoreOne - distance)

\* a faulty variant: the floor is applied to the relevance score
Dropped_by_relevance(similarity_score, relevance_score, min_score) ==
    relevance_score < min_score

\* `if similarity_score < min_similarity_score: continue`
Dropped(similarity_score, relevance_score, min_score) == similarity_score < min_score

\* the loop of _process_search_results from neighbour i on
RECURSIVE ScoredResults(_, _, _, _, _)
ScoredResults(raw, min_score, context, i, acc) ==
    IF i > Len(raw) THEN acc
    ELSE LET similarity_score == Similarity(raw[i].distance)
             relevance_score == calculate_contextual_relevance(raw[i].metadata, context,
                                    similarity_score)
         IN ScoredResults(raw, min_score, context, i + 1,
                IF Dropped(similarity_score, relevance_score, min_score) THEN acc
                ELSE Append(acc, [neighbour |-> i, similarity_score |-> similarity_score,
                                  relevance_score |-> relevance_score]))

\* SearchResult.__post_init__ raises ValueError
ScoreInvalid(r) ==
    \/ ~(0 <= r.similarity_score /\ r.similarity_score <= ScoreOne)
    \/ ~(0 <= r.relevance_score /\ r.relevance_score <= ScoreOne)

\* _process_search_results: the list, or the ValueError of a SearchResult
process_search_results(raw, min_score, context, limit) ==
    LET scored == ScoredResults(raw, min_score, context, 1, <<>>)
        sorted == SortedDesc(scored, 1, <<>>)
    IN IF \E k \in 1..Len(scored) : ScoreInvalid(scored[k])
       THEN [raised |-> TRUE, results |-> <<>>]
       ELSE [raised |-> FALSE, results |-> SubSeq(sorted, 1, Min(limit, Len(sorted)))]

\* what the vector store and the statistics of the cache can do to a search
ChromaFaults == {"none", "get_collection", "create_collection", "query", "stats"}

\* the collection object the client of the vector store returns for a name:
\* a new object at each call
Handle(name, serial) == Some(<<name, serial>>)

\* _get_or_create_collection on the cache miss path: what it leaves and
\* returns once the store has been asked
open_collection(name, fault) ==
    LET failed(n) == [collections |-> engine.collections, handles |-> engine.handles,
                      opened |-> engine.opened, remote |-> chromadb, created |-> 0,
                      raised |-> TRUE, handle |-> None, store_calls |-> n]
        kept(n, made) == [collections |-> engine.collections \cup {name},
                          handles |-> [engine.handles EXCEPT
                                          ![name] = Handle(name, engine.opened + 1)],
                          opened |-> engine.opened + 1,
                          remote |-> chromadb \cup {name}, created |-> made,
                          raised |-> FALSE, handle |-> Handle(name, engine.opened + 1),
                          store_calls |-> n]
    IN IF fault = "get_collection" THEN failed(1)
       ELSE IF name \in chromadb THEN kept(1, 0)
       ELSE IF fault = "create_collection" THEN failed(2)
       ELSE kept(2, 1)

\* a faulty variant: the store is asked at every access
get_or_create_collection_uncached(name, fault) == open_collection(name, fault)

\* _get_or_create_collection: the handle cache, the store and the counter it
\* leaves, the handle it returns, whether it raised ChromaDBError and the
\* number of calls it made to the vector store
get_or_create_collection(name, fault) ==
    IF name \in engine.collections
    THEN [collections |-> engine.collections, handles |-> engine.handles,
          opened |-> engine.opened, remote |-> chromadb, created |-> 0,
          raised |-> FALSE, handle |-> engine.handles[name], store_calls |-> 0]
    ELSE open_collection(name, fault)

\* ScorpiusError and its subclasses
DomainErrors == {"ScorpiusError", "ValidationError", "OpenAIError", "ChromaDBError"}

NoError == [raised |-> "none", wrapped |-> FALSE, cause |-> "none", context |-> None]

\* an error that reaches the caller as it was raised
Raised(error) == [raised |-> error, wrapped |-> FALSE, cause |-> error, context |-> None]

\* a ScorpiusError made in the except block for the error `cause`
Wrapped(p, cause) ==
    [raised |-> "ScorpiusError", wrapped |-> TRUE, cause |-> cause,
     context |-> Some([query_length |-> Len(p.query), collection |-> p.collection,
                       limit |-> p.limit])]

\* a faulty variant: every error is wrapped
HandleError_always_wrap(p, cause) == Wrapped(p, cause)

\* the end of the except block of search: `if not isinstance(e, ScorpiusError)`
HandleError(p, cause) == IF cause \in DomainErrors THEN Raised(cause) ELSE Wrapped(p, cause)

\* what the caller of search observes: the arguments, the error if any, the
\* step that raised it, the neighbours and the filters of the vector query
SearchRecord(p, e, step, raw, where, results) ==
    [op |-> "search", query |-> p.query, context |-> p.context, filters |-> p.filters,
     collection |-> p.collection, limit |-> p.limit, min_score |-> p.min_score,
     raised |-> e.raised, wrapped |-> e.wrapped, cause |-> e.cause,
     error_context |-> e.context, step |-> step, raw |-> raw, where |-> where,
     results |-> results]

\* _update_search_stats up to the statistics of the embedding service: the
\* search is counted and the mean is moved by the new duration
update_search_stats(e, duration_ms) ==
    LET total_searches == e.total_searches + 1
        prev_avg == e.avg_search_time_ms
    IN [e EXCEPT !.total_searches = total_searches,
                 !.avg_search_time_ms =
                     [num |-> prev_avg.num * (total_searches - 1) + duration_ms * prev_avg.den,
                      den |-> prev_avg.den * total_searches]]

\* search after the embedding of the enriched query was obtained: the
\* collection, the filters, the vector query answering `neighbours`, the
\* post-processing and the counters.  _update_search_stats counts the search
\* and then reads the statistics of the embedding service and of the cache
\* directory; an error there is counted again by the except block.
SearchContinue(p, fault, neighbours) ==
    \E c \in {get_or_create_collection(p.collection, fault)} :
    \E raw \in {SubSeq(neighbours, 1, Min(p.limit * OverSampling, Len(neighbours)))} :
    \E processed \in {process_search_results(raw, p.min_score, p.context, p.limit)} :
    \E cause \in {IF c.raised THEN "ChromaDBError"
                  ELSE IF fault = "query" THEN "Exception"
                  ELSE IF processed.raised THEN "ValueError"
                  ELSE IF fault = "stats" THEN "OSError"
                  ELSE "none"} :
    LET where == build_metadata_filters(p.context, p.filters)
        step == IF c.raised \/ fault = "query" THEN "retrieve"
                ELSE IF processed.raised THEN "scoring"
                ELSE IF fault = "stats" THEN "stats"
                ELSE "none"
        queried == ~c.raised /\ fault # "query"
        search_duration == (time - p.start) * 500
        counted == IF cause \in {"none", "OSError"}
                   THEN update_search_stats(engine, search_duration)
                   ELSE [engine EXCEPT !.total_searches = @ + 1]
    IN /\ engine' = [total_searches |-> counted.total_searches
                                          + (IF cause = "OSError" THEN 1 ELSE 0),
                     avg_search_time_ms |-> counted.avg_search_time_ms,
                     collections_created |-> engine.collections_created + c.created,
                     collections |-> c.collections,
                     handles |-> c.handles,
                     opened |-> c.opened,
                     cache_hits |-> IF cause = "none" THEN svc'.cache_hits
                                    ELSE engine.cache_hits,
                     embed_requests |-> IF cause = "none" THEN svc'.total_requests
                                        ELSE engine.embed_requests]
       /\ chromadb' = c.remote
       /\ searched' = SearchRecord(p,
                          IF cause = "none" THEN NoError ELSE HandleError(p, cause),
                          step,
                          IF queried THEN raw ELSE <<>>,
                          IF c.raised THEN None ELSE where,
                          IF cause = "none" THEN processed.results ELSE <<>>)
       /\ pending' = NoSearch
       /\ calls' = calls + 1
       /\ durations' = IF cause = "none" THEN Append(durations, search_duration)
                       ELSE durations

\* search when embed raised: the failure is counted and the OpenAIError, a
\* ScorpiusError, is re-raised as it is
SearchEmbedFailed(p) ==
    /\ engine' = [engine EXCEPT !.total_searches = @ + 1]
    /\ searched' = SearchRecord(p, HandleError(p, "OpenAIError"), "embed", <<>>, None, <<>>)
    /\ pending' = NoSearch
    /\ calls' = calls + 1
    /\ UNCHANGED <<chromadb, durations>>

\* search when _enrich_query_with_context raised: technical_domains holds
\* plain strings, `d.value` raises AttributeError
SearchEnrichFailed(p) ==
    /\ engine' = [engine EXCEPT !.total_searches = @ + 1]
    /\ searched' = SearchRecord(p, HandleError(p, "AttributeError"), "enrich", <<>>, None,
                       <<>>)
    /\ calls' = calls + 1
    /\ UNCHANGED <<store, stats, last, embedVars, chromadb, pending, durations>>

\* a faulty variant: the collection is opened before the parameters are checked
SearchRejected_after_open(p) ==
    LET c == get_or_create_collection(p.collection, "none")
    IN /\ searched' = SearchRecord(p, Raised("ValidationError"), "validate", <<>>, None,
                          <<>>)
       /\ engine' = [engine EXCEPT !.collections = c.collections,
                                   !.handles = c.handles,
                                   !.opened = c.opened,
                                   !.collections_created = @ + c.created]
       /\ chromadb' = c.remote
       /\ calls' = calls + 1
       /\ UNCHANGED <<store, stats, last, embedVars, pending, durations>>

\* search when a parameter is rejected: ValidationError is raised before the
\* try block, nothing else has run
SearchRejected(p) ==
    /\ searched' = SearchRecord(p, Raised("ValidationError"), "validate", <<>>, None, <<>>)
    /\ calls' = calls + 1
    /\ UNCHANGED <<store, stats, last, embedVars, engine, chromadb, pending, durations>>

\* the documents of the collection, by the metadata they were stored with
MetaNone == Metadata("", "", "", OrgNone)
MetaMatch == Metadata("Territorial", "MAPA", "", OrgNone)
MetaSector == Metadata("Territorial", "Ouvert", "", OrgNone)
MetaFull == Metadata("Territorial", "MAPA", "25k-100k", OrgChuLille)
MetaBucket == Metadata("Hospitalier", "Ouvert", "0-25k", OrgNone)

Neighbour(distance, metadata) == [distance |-> distance, metadata |-> metadata]

\* the answers of chroma_collection.query, nearest first or not
Neighbourhoods ==
    {<<>>,
     <<Neighbour(0, MetaNone), Neighbour(120, MetaMatch)>>,
     <<Neighbour(30, MetaNone), Neighbour(30, MetaMatch)>>,
     <<Neighbour(0, MetaBucket), Neighbour(0, MetaMatch)>>,
     <<Neighbour(50, MetaMatch), Neighbour(55, MetaMatch), Neighbour(45, MetaSector),
       Neighbour(40, MetaNone)>>,
     <<Neighbour(20, MetaNone), Neighbour(30, MetaFull), Neighbour(25, MetaSector)>>,
     <<Neighbour(10, MetaNone), Neighbour(0 - 10, MetaNone)>>}

\* ScorpiusRAGEngine.search up to the first await that suspends it;
\* typed_domains is false when technical_domains holds plain strings
Search(query, context, collection, limit, min_score, filters, typed_domains) ==
    LET p == [op |-> "search", query |-> query, context |-> context, filters |-> filters,
              collection |-> collection, limit |-> limit, min_score |-> min_score,
              start |-> time]
    IN /\ call.pc = "idle"
       /\ calls < MaxSearches
       /\ IF SearchValidation(query, limit, min_score) # "ok"
          THEN SearchRejected(p)
          ELSE IF context.present /\ context.technical_domains # <<>> /\ ~typed_domains
          THEN SearchEnrichFailed(p)
          ELSE LET text == enrich_query_with_context(query, context)
                   b == begin_embed("search", TRUE, <<text>>, TRUE)
               IN /\ BeginEmbedEffect(b, TRUE, <<text>>, TRUE)
                  /\ IF b.done
                     THEN \E f \in ChromaFaults, nb \in Neighbourhoods :
                              SearchContinue(p, f, nb)
                     ELSE /\ pending' = p
                          /\ UNCHANGED <<engine, chromadb, searched, calls, durations>>
       /\ UNCHANGED <<now, raceVars, batchVars, inflight>>

\* The provider answers the request: one item per text, each carrying the
\* index of its text in the request, the items in the order `order`.  embed
\* then writes the new vectors back, rebuilds the list and counts the call;
\* a search that awaited the embedding goes on.
ProviderRespond(order, fault) ==
    /\ call.pc = "awaiting"
    /\ LET data == [j \in 1..Len(order) |->
                       [index |-> order[j], embedding |-> Emb(call.to_process[order[j]])]]
           new_embeddings == extract_embeddings(data)
           before == {[store |-> store, stats |-> stats, raised |-> "none",
                       stored |-> <<>>]}
           outs == IF call.use_cache
                   THEN write_back(call.to_process, call.model, new_embeddings, 1, before,
                            fault)
                   ELSE before
           record == EmbedRecord(call.single, call.texts, call.use_cache,
                         Reassemble(Len(call.texts), call.cached, new_embeddings,
                             call.mapping),
                         "none", order)
       IN \E o \in outs :
          /\ store' = o.store
          /\ stats' = o.stats
          /\ last' = IF call.use_cache THEN [NoOp EXCEPT !.op = "embed", !.at = now]
                     ELSE last
          /\ svc' = [svc EXCEPT
                        !.total_tokens = @ + Tokens(call.to_process, 1),
                        !.total_requests = IF o.raised = "none" THEN @ + 1 ELSE @]
          /\ embedded' = [record EXCEPT
                             !.cache_before = call.cache_before,
                             !.stored = o.stored,
                             !.obtained = new_embeddings,
                             !.fault = fault,
                             !.raised = o.raised,
                             !.final = IF o.raised = "none" THEN @ ELSE <<>>]
          /\ IF call.owner # "search" THEN UNCHANGED searchVars
             ELSE IF o.raised # "none" THEN SearchEmbedFailed(pending)
             ELSE \E f \in ChromaFaults, nb \in Neighbourhoods :
                      SearchContinue(pending, f, nb)
    /\ call' = NoCall
    /\ UNCHANGED <<now, raceVars, batchVars, inflight>>

\* The provider call raises: the error is counted and raised as OpenAIError
ProviderFail(failure) ==
    /\ call.pc = "awaiting"
    /\ svc.errors < MaxErrors
    /\ svc' = [svc EXCEPT !.errors = @ + 1]
    /\ embedded' = [EmbedRecord(call.single, call.texts, call.use_cache, <<>>,
                        "OpenAIError", <<>>)
                       EXCEPT !.failure = failure, !.error = translate_failure(failure),
                              !.cache_before = call.cache_before]
    /\ call' = NoCall
    /\ IF call.owner = "search" THEN SearchEmbedFailed(pending) ELSE UNCHANGED searchVars
    /\ UNCHANGED <<cacheVars, raceVars, batchVars, inflight>>

EmbedRequests ==
    {[single |-> TRUE, texts |-> <<TextAB>>],
     [single |-> FALSE, texts |-> <<TextAB, TextC>>],
     [single |-> FALSE, texts |-> <<TextC, TextD, TextAB>>],
     [single |-> FALSE, texts |-> <<TextC, TextBlank>>],
     [single |-> FALSE, texts |-> <<>>]}

NextEmbed ==
    \/ \E rq \in EmbedRequests, use_cache \in BOOLEAN :
          EmbedStart(rq.single, rq.texts, use_cache)
    \/ \E order \in SeqPerms(1..Len(call.to_process)) : ProviderRespond(order, "none")
    \/ ProviderFail(ConnectionFailure)

SpecEmbed == Init /\ [][NextEmbed]_vars

(* embed on texts that share a cache key: two raw texts with one normalised *)
(* form, alone and in lists                                                *)

EmbedWriteRequests ==
    {[single |-> TRUE, texts |-> <<TextAB>>],
     [single |-> TRUE, texts |-> <<TextA_B>>],
     [single |-> FALSE, texts |-> <<TextAB, TextC>>],
     [single |-> FALSE, texts |-> <<TextC, TextA_B>>]}

NextEmbedWrites ==
    \/ \E rq \in EmbedWriteRequests, use_cache \in BOOLEAN :
          EmbedStart(rq.single, rq.texts, use_cache)
    \/ \E order \in SeqPerms(1..Len(call.to_process)) : ProviderRespond(order, "none")
    \/ ProviderFail(ConnectionFailure)

SpecEmbedWrites == Init /\ [][NextEmbedWrites]_vars

(* embed when the provider fails every request, in every way *)

\* the failures of the provider: no response, a response whose body is not
\* JSON or has no error detail, an error payload of each status
StatusCodes == {401, 403, 429, 500}
Failures ==
    {ConnectionFailure,
     Failure(TRUE, "not_json", 502, "", ""),
     Failure(TRUE, "no_detail", 429, "", ""),
     Failure(TRUE, "error", 429, "null", "insufficient_quota")}
    \cup {Failure(TRUE, "error", st, "invalid_request_error", code) :
             st \in StatusCodes,
             code \in {"insufficient_quota", "invalid_api_key", "unknown"}}

NextProviderErrors ==
    \/ \E rq \in EmbedRequests, use_cache \in BOOLEAN :
          EmbedStart(rq.single, rq.texts, use_cache)
    \/ \E failure \in Failures : ProviderFail(failure)

SpecProviderErrors == Init /\ [][NextProviderErrors]_vars

(* Several requests in flight on one engine, each about to open a          *)
(* collection.  _get_or_create_collection awaits nothing: the accessor     *)
(* runs from its cache check to its return in one step of the event loop.  *)

\* a search or add_documents call has reached the await before its access
\* to the collection
RequestArrives(r, name) ==
    /\ inflight[r].pc # "waiting"
    /\ inflight' = [inflight EXCEPT ![r] = [NoRequest EXCEPT !.pc = "waiting",
                                                             !.name = name]]
    /\ UNCHANGED <<cacheVars, raceVars, embedVars, searchVars, batchVars>>

\* the request goes on: `await self._get_or_create_collection(collection)`
RequestOpens(r, fault) ==
    /\ inflight[r].pc = "waiting"
    /\ LET name == inflight[r].name
           c == get_or_create_collection(name, fault)
       IN /\ engine' = [engine EXCEPT !.collections = c.collections,
                                      !.handles = c.handles,
                                      !.opened = c.opened,
                                      !.collections_created = @ + c.created]
          /\ chromadb' = c.remote
          /\ inflight' = [inflight EXCEPT ![r] =
                 [pc |-> "opened", name |-> name,
                  peers |-> {q \in Requests \ {r} : inflight[q].pc = "waiting"
                                                     /\ inflight[q].name = name},
                  was_cached |-> engine.handles[name] # None,
                  handle |-> c.handle, raised |-> c.raised,
                  store_calls |-> c.store_calls]]
    /\ UNCHANGED <<cacheVars, raceVars, embedVars, batchVars, pending, searched, calls,
                   durations>>

\* the collection is dropped from the vector store behind the engine's back
\* or made there by another process
StoreChanges(name) ==
    /\ chromadb' = IF name \in chromadb THEN chromadb \ {name} ELSE chromadb \cup {name}
    /\ UNCHANGED <<cacheVars, raceVars, embedVars, batchVars, inflight, engine, pending,
                   searched, calls, durations>>

OpenFaults == {"none", "get_collection", "create_collection"}

NextFlight ==
    \/ \E r \in Requests, name \in AllCollections : RequestArrives(r, name)
    \/ \E r \in Requests, fault \in OpenFaults : RequestOpens(r, fault)
    \/ \E name \in AllCollections : StoreChanges(name)

SpecFlight == Init /\ [][NextFlight]_vars

(* The cache and the client used together, the cache being cleared *)

NextCounters ==
    \/ \E m \in Models, f \in {"none", "open"} : Set(TextC, m, Vec1, f)
    \/ \E m \in Models : stats.total_requests < MaxRequests /\ Get(TextC, m, "none")
    \/ EmbedStart(FALSE, <<TextAB, TextC>>, TRUE)
    \/ \E order \in SeqPerms(1..Len(call.to_process)) : ProviderRespond(order, "none")
    \/ ProviderFail(ConnectionFailure)
    \/ \E failing \in SUBSET Present(store), scanFails \in BOOLEAN : Clear(failing, scanFails)

SpecCounters == Init /\ [][NextCounters]_vars

(* embed when the cache directory fails: entries are altered on disk and   *)
(* I/O calls of the write-back raise.                                      *)

EmbedFaultRequests ==
    {[single |-> TRUE, texts |-> <<TextAB>>],
     [single |-> FALSE, texts |-> <<TextBig, TextAB>>],
     [single |-> FALSE, texts |-> <<TextAB, TextC>>]}
EmbedSetFaults == {"none", "open", "dump"}
EmbedTamperKinds == {"garble", "unreadable", "hash"}

NextEmbedFaults ==
    \/ \E rq \in EmbedFaultRequests : EmbedStart(rq.single, rq.texts, TRUE)
    \/ \E order \in SeqPerms(1..Len(call.to_process)), fault \in EmbedSetFaults :
          ProviderRespond(order, fault)
    \/ ProviderFail(ConnectionFailure)
    \/ \E k \in TamperKeys, kind \in EmbedTamperKinds : Tamper(k, kind)

SpecEmbedFaults == Init /\ [][NextEmbedFaults]_vars

(* OpenAIEmbeddingService.embed_batch.  Time is in half seconds: the pause  *)
(* between two waves is one unit, and the client is configured with         *)
(* rate_limit_rpm = 60 / (RateLimitDelay / 2).                              *)

\* a faulty variant: a wave is gathered only when the last chunk was made
WaveFull_last_only(n_tasks, i, batch_size, n) == i + batch_size >= n

\* `len(tasks) >= max_concurrent or i + batch_size >= len(texts)`
WaveFull(n_tasks, i, batch_size, n) == n_tasks >= max_concurrent \/ i + batch_size >= n

\* the loop of embed_batch from offset i up to the next gather: the chunks
\* of the wave and the offset of its last chunk
RECURSIVE wave_chunks(_, _, _, _)
wave_chunks(texts, batch_size, i, chunks) ==
    LET chunk == SubSeq(texts, i + 1, Min(i + batch_size, Len(texts)))
        made == Append(chunks, chunk)
    IN IF WaveFull(Len(made), i, batch_size, Len(texts))
       THEN [chunks |-> made, i |-> i]
       ELSE wave_chunks(texts, batch_size, i + batch_size, made)

Task(wave, texts, pc, look, wake, result, raised) ==
    [wave |-> wave, texts |-> texts, pc |-> pc, cached |-> look.cached,
     to_process |-> look.to_process, mapping |-> look.mapping, wake |-> wake,
     began |-> time, ended |-> IF pc \in {"done", "failed"} THEN time ELSE 0,
     result |-> result, raised |-> raised]

\* _call_openai_api once _wait_for_rate_limit has returned: the time of the
\* request is kept, the call is counted and the request is sent
send_request(s) ==
    [s EXCEPT !.svc = [@ EXCEPT !.last_request_time = time, !.api_calls = @ + 1],
              !.starts = Append(@, time)]

\* embed on one chunk up to its first suspension: the validation, the cache
\* lookups and _wait_for_rate_limit, which sleeps or lets the request go.
\* s: the cache, the counters and the tasks left by the chunks before it
start_chunk(s, wave, texts, use_cache) ==
    LET model == CHOOSE m \in Models : TRUE
        none == [cached |-> <<>>, to_process |-> <<>>, mapping |-> <<>>]
        look == IF use_cache THEN lookup(texts, model, 1, s.store, s.stats, none)
                ELSE [NoLookup(texts) EXCEPT !.store = s.store, !.stats = s.stats]
        counted == [s EXCEPT !.store = look.store, !.stats = look.stats,
                             !.svc.cache_hits = @ + Len(look.cached)]
        since == time - s.svc.last_request_time
    IN IF EmbedInvalid(texts)
       THEN [s EXCEPT !.tasks = Append(@, Task(wave, texts, "failed", none, 0, <<>>,
                                              "ValidationError"))]
       ELSE IF look.to_process = <<>>
       THEN [counted EXCEPT
                !.svc.total_requests = @ + 1,
                !.tasks = Append(@, Task(wave, texts, "done", look, 0,
                              Reassemble(Len(texts), look.cached, <<>>, look.mapping),
                              "none"))]
       ELSE IF since < RateLimitDelay
       THEN [counted EXCEPT
                !.tasks = Append(@, Task(wave, texts, "sleeping", look,
                              time + (RateLimitDelay - since), <<>>, "none"))]
       ELSE [send_request(counted) EXCEPT
                !.tasks = Append(@, Task(wave, texts, "calling", look, 0, <<>>, "none"))]

\* asyncio.gather starts the coroutines of the wave in the order of the list
RECURSIVE start_wave(_, _, _, _, _)
start_wave(s, wave, chunks, j, use_cache) ==
    IF j > Len(chunks) THEN s
    ELSE start_wave(start_chunk(s, wave, chunks[j], use_cache), wave, chunks, j + 1,
             use_cache)

\* the cache, the client and the tasks after the wave starting at offset i
\* was gathered
gather(texts, batch_size, i, wave, use_cache) ==
    \E w \in {wave_chunks(texts, batch_size, i, <<>>)} :
    \E s \in {start_wave([store |-> store, stats |-> stats, svc |-> svc,
                          starts |-> starts, tasks |-> tasks],
                  wave, w.chunks, 1, use_cache)} :
       /\ store' = s.store
       /\ stats' = s.stats
       /\ svc' = s.svc
       /\ starts' = s.starts
       /\ tasks' = s.tasks
       /\ last' = IF use_cache THEN [NoOp EXCEPT !.op = "embed", !.at = now] ELSE last
       /\ batch' = [batch EXCEPT !.pc = "gathering", !.texts = texts,
                                 !.batch_size = batch_size, !.use_cache = use_cache,
                                 !.i = w.i, !.wave = wave]

\* OpenAIEmbeddingService.embed_batch up to its first suspension.  With no
\* more texts than batch_size the call is the one embed call it awaits.
EmbedBatch(texts, batch_size, use_cache) ==
    /\ batch.pc = "idle"
    /\ call.pc = "idle"
    /\ IF texts = <<>>
       THEN /\ batch' = [batch EXCEPT !.pc = "returned"]
            /\ UNCHANGED <<store, stats, last, svc, tasks, starts>>
       ELSE gather(texts, batch_size, 0, 1, use_cache)
    /\ UNCHANGED <<now, raceVars, call, embedded, searchVars, time, inflight>>

InWave(c) == c \in 1..Len(tasks) /\ tasks[c].wave = batch.wave

\* asyncio.sleep returns in _wait_for_rate_limit: the time of the request is
\* kept and the request is sent
ChunkWake(c) ==
    /\ batch.pc = "gathering"
    /\ InWave(c)
    /\ tasks[c].pc = "sleeping"
    /\ time >= tasks[c].wake
    /\ LET s == send_request([svc |-> svc, starts |-> starts])
       IN svc' = s.svc /\ starts' = s.starts
    /\ tasks' = [tasks EXCEPT ![c].pc = "calling"]
    /\ UNCHANGED <<cacheVars, raceVars, call, embedded, searchVars, batch, time, inflight>>

\* the provider answers the request of a chunk: embed writes the vectors
\* back, rebuilds the list and counts the call
ChunkRespond(c, order) ==
    /\ batch.pc = "gathering"
    /\ InWave(c)
    /\ tasks[c].pc = "calling"
    /\ order \in SeqPerms(1..Len(tasks[c].to_process))
    /\ LET t == tasks[c]
           data == [j \in 1..Len(order) |->
                       [index |-> order[j], embedding |-> Emb(t.to_process[order[j]])]]
           new_embeddings == extract_embeddings(data)
           before == {[store |-> store, stats |-> stats, raised |-> "none",
                       stored |-> <<>>]}
           outs == IF batch.use_cache
                   THEN write_back(t.to_process, CHOOSE m \in Models : TRUE,
                            new_embeddings, 1, before, "none")
                   ELSE before
       IN \E o \in outs :
          /\ store' = o.store
          /\ stats' = o.stats
          /\ last' = IF batch.use_cache THEN [NoOp EXCEPT !.op = "embed", !.at = now]
                     ELSE last
          /\ svc' = [svc EXCEPT
                        !.total_tokens = @ + Tokens(t.to_process, 1),
                        !.total_requests = IF o.raised = "none" THEN @ + 1 ELSE @]
          /\ tasks' = IF o.raised = "none"
                      THEN [tasks EXCEPT ![c].pc = "done", ![c].ended = time,
                               ![c].result = Reassemble(Len(t.texts), t.cached,
                                                 new_embeddings, t.mapping)]
                      ELSE [tasks EXCEPT ![c].pc = "failed", ![c].ended = time,
                               ![c].raised = o.raised]
    /\ UNCHANGED <<now, raceVars, call, embedded, searchVars, batch, time, starts, inflight>>

\* the request of a chunk raises: the error is counted and raised as
\* OpenAIError inside the task
ChunkFail(c) ==
    /\ batch.pc = "gathering"
    /\ InWave(c)
    /\ tasks[c].pc = "calling"
    /\ svc.errors < MaxErrors
    /\ svc' = [svc EXCEPT !.errors = @ + 1]
    /\ tasks' = [tasks EXCEPT ![c].pc = "failed", ![c].ended = time,
                              ![c].raised = "OpenAIError"]
    /\ UNCHANGED <<cacheVars, raceVars, call, embedded, searchVars, batch, time, starts,
                   inflight>>

RECURSIVE Extend(_, _, _)
Extend(all, results, j) ==
    IF j > Len(results) THEN all ELSE Extend(all \o results[j], results, j + 1)

\* gather returns when every task of the wave has ended: the first exception
\* of the list is raised, otherwise the vectors are collected and
\* embed_batch sleeps before the next wave or returns
GatherReturns ==
    /\ batch.pc = "gathering"
    /\ \A c \in 1..Len(tasks) : InWave(c) => tasks[c].pc \in {"done", "failed"}
    /\ LET wave == SelectSeq(tasks, LAMBDA t : t.wave = batch.wave)
           failed == {j \in 1..Len(wave) : wave[j].pc = "failed"}
           first == CHOOSE j \in failed : \A k \in failed : j <= k
           more == batch.i + batch.batch_size < Len(batch.texts)
       IN batch' = IF failed # {}
                   THEN [batch EXCEPT !.pc = "raised", !.raised = wave[first].raised]
                   ELSE [batch EXCEPT
                            !.all_embeddings =
                                Extend(@, [j \in 1..Len(wave) |-> wave[j].result], 1),
                            !.pc = IF more THEN "pausing" ELSE "returned",
                            !.wake = IF more THEN time + PauseTicks ELSE @,
                            !.pauses = IF more THEN @ + 1 ELSE @]
    /\ UNCHANGED <<cacheVars, raceVars, embedVars, searchVars, tasks, time, starts, inflight>>

\* asyncio.sleep(0.5) returns: the loop makes the chunks of the next wave
\* and gathers them
PauseEnds ==
    /\ batch.pc = "pausing"
    /\ time >= batch.wake
    /\ gather(batch.texts, batch.batch_size, batch.i + batch.batch_size, batch.wave + 1,
           batch.use_cache)
    /\ UNCHANGED <<now, raceVars, call, embedded, searchVars, time, inflight>>

\* time passes while embed_batch or embed is suspended
TimePasses ==
    /\ batch.pc \in {"gathering", "pausing"} \/ call.pc = "awaiting"
    /\ time < MaxTime
    /\ time' = time + 1
    /\ UNCHANGED <<cacheVars, raceVars, embedVars, searchVars, batch, tasks, starts, inflight>>

BatchRequests ==
    {[texts |-> <<TextC, TextD, TextAB, TextC>>, batch_size |-> 1],
     [texts |-> <<TextC, TextD, TextAB>>, batch_size |-> 2],
     [texts |-> <<TextC, TextBlank>>, batch_size |-> 1],
     [texts |-> <<TextC, TextD>>, batch_size |-> 2],
     [texts |-> <<>>, batch_size |-> 1]}

NextBatch ==
    \/ \E rq \in BatchRequests, use_cache \in BOOLEAN :
          EmbedBatch(rq.texts, rq.batch_size, use_cache)
    \/ \E c \in 1..Len(tasks) : ChunkWake(c)
    \/ \E c \in 1..Len(tasks) : \E order \in SeqPerms(1..Len(tasks[c].to_process)) :
          ChunkRespond(c, order)
    \/ \E c \in 1..Len(tasks) : ChunkFail(c)
    \/ GatherReturns
    \/ PauseEnds
    \/ TimePasses

SpecBatch == Init /\ [][NextBatch]_vars

(* embed_batch on lists in which a text occurs more than once *)

RepeatedRequests ==
    {[texts |-> <<TextC, TextC>>, batch_size |-> 1],
     [texts |-> <<TextC, TextD, TextC, TextD>>, batch_size |-> 1],
     [texts |-> <<TextC, TextD, TextAB, TextC>>, batch_size |-> 1],
     [texts |-> <<TextC, TextD, TextD, TextC>>, batch_size |-> 2]}

NextRepeated ==
    \/ \E rq \in RepeatedRequests, use_cache \in BOOLEAN :
          EmbedBatch(rq.texts, rq.batch_size, use_cache)
    \/ \E c \in 1..Len(tasks) : ChunkWake(c)
    \/ \E c \in 1..Len(tasks) : ChunkRespond(c, [j \in 1..Len(tasks[c].to_process) |-> j])
    \/ \E c \in 1..Len(tasks) : ChunkFail(c)
    \/ GatherReturns
    \/ PauseEnds
    \/ TimePasses

SpecRepeated == Init /\ [][NextRepeated]_vars

(* Searches on one engine *)

SearchQueries == {<<>>, TextBlank, TextAB, TextC}
SearchLimits == {0 - 1, 0, 1, LimitMax, LimitMax + 1}
SearchScores == {0 - 1, 0, ScoreOne, ScoreOne + 1}

NextSearch ==
    \/ \E q \in SearchQueries, c \in CollectionNames, l \in SearchLimits,
          m \in SearchScores : Search(q, NoContext, c, l, m, None, TRUE)
    \/ \E order \in SeqPerms(1..Len(call.to_process)) : ProviderRespond(order, "none")
    \/ ProviderFail(ConnectionFailure)

SpecSearch == InitAnyStore /\ [][NextSearch]_vars

(* Searches that take time: the provider answers late, or fails *)

NextLatency ==
    \/ \E q \in {TextAB, TextC}, c \in CollectionNames :
          Search(q, NoContext, c, 1, 0, None, TRUE)
    \/ \E order \in SeqPerms(1..Len(call.to_process)) : ProviderRespond(order, "none")
    \/ ProviderFail(ConnectionFailure)
    \/ TimePasses

SpecLatency == Init /\ [][NextLatency]_vars

(* Searches with a context: scoring and ranking *)

RankLimits == {1, 2}
RankScores == {0, 50}
RankFilter == Some([k \in {"secteur"} |-> Eq("Hospitalier")])

\* the calls: every context with every limit and floor, one call with a
\* filter of the caller's, one with technical_domains holding plain strings
RankRequests ==
    {[context |-> x, limit |-> l, min_score |-> m, filters |-> None, typed |-> TRUE] :
        x \in SearchContexts, l \in RankLimits, m \in RankScores}
    \cup {[context |-> CtxMapa, limit |-> 2, min_score |-> 0, filters |-> RankFilter,
           typed |-> TRUE],
          [context |-> CtxMapa, limit |-> 2, min_score |-> 0, filters |-> None,
           typed |-> FALSE]}

NextRank ==
    \/ /\ calls < MaxRankCalls
       /\ \E r \in RankRequests, c \in CollectionNames :
          Search(TextC, r.context, c, r.limit, r.min_score, r.filters, r.typed)
    \/ \E order \in SeqPerms(1..Len(call.to_process)) : ProviderRespond(order, "none")
    \/ ProviderFail(ConnectionFailure)

SpecRank == Init /\ [][NextRank]_vars

(* The helpers of search applied on their own, once each *)

HelperAmounts == {None, Some(0), Some(30000), Some(24999)}
HelperDomains == {<<>>, <<"Data/IA">>, <<"Développement", "Conseil">>}

HelperContexts ==
    {NoContext} \cup
    {AOContext(t, s, a, d, o) :
        t \in {"MAPA", "Ouvert"}, s \in {"Territorial"}, a \in HelperAmounts,
        d \in HelperDomains, o \in {OrgNone, OrgChuNantes, OrgMairie}}

HelperMetadata ==
    {Metadata(s, t, f, o) :
        s \in {"", "Territorial", "Hospitalier"}, t \in {"", "MAPA"},
        f \in {"", "0-25k", "25k-100k"}, o \in {OrgNone, OrgChuLille, OrgRegion}}

HelperSimilarities == {0, 70, 80, 90, ScoreOne}

HelperFilters ==
    {None, Some(EmptyDict),
     Some([k \in {"organisme"} |-> Eq("CHU")]),
     Some([k \in {"secteur", "annee"} |-> IF k = "secteur" THEN Eq("État") ELSE Eq("2024")]),
     Some([k \in {"domaine_technique"} |-> Eq("Conseil")])}

\* _calculate_contextual_relevance called on its own
CalculateRelevance(metadata, context, base_similarity) ==
    /\ searched = NoSearch
    /\ searched' = [op |-> "calculate_contextual_relevance", metadata |-> metadata,
                    context |-> context, base_similarity |-> base_similarity,
                    result |-> calculate_contextual_relevance(metadata, context,
                                   base_similarity)]
    /\ UNCHANGED <<cacheVars, raceVars, batchVars, inflight, embedVars, engine, chromadb,
                   pending, calls, durations>>

\* _enrich_query_with_context called on its own
EnrichQuery(query, context) ==
    /\ searched = NoSearch
    /\ searched' = [op |-> "enrich_query_with_context", query |-> query,
                    context |-> context,
                    result |-> enrich_query_with_context(query, context)]
    /\ UNCHANGED <<cacheVars, raceVars, batchVars, inflight, embedVars, engine, chromadb,
                   pending, calls, durations>>

\* _build_metadata_filters called on its own
BuildFilters(context, additional_filters) ==
    /\ searched = NoSearch
    /\ searched' = [op |-> "build_metadata_filters", context |-> context,
                    additional_filters |-> additional_filters,
                    result |-> build_metadata_filters(context, additional_filters)]
    /\ UNCHANGED <<cacheVars, raceVars, batchVars, inflight, embedVars, engine, chromadb,
                   pending, calls, durations>>

\* each helper is applied to one input, from the initial state
NextHelpers ==
    \/ /\ searched = NoSearch
       /\ \E md \in HelperMetadata, c \in HelperContexts, b \in HelperSimilarities :
              CalculateRelevance(md, c, b)
    \/ /\ searched = NoSearch
       /\ \E q \in {TextAB, TextC}, c \in HelperContexts : EnrichQuery(q, c)
    \/ /\ searched = NoSearch
       /\ \E c \in HelperContexts, f \in HelperFilters : BuildFilters(c, f)

SpecHelpers == Init /\ [][NextHelpers]_vars

Spec == SpecCache

----------------------------------------------------------------------------
(* Properties of the cache *)

LastKey == get_cache_key(last.text, last.model)

RECURSIVE SumEvicted(_, _)
SumEvicted(ev, i) == IF i > Len(ev) THEN 0 ELSE ev[i].size + SumEvicted(ev, i + 1)

\* C2: set(text, model, vector) followed by get(text, model) before the TTL
\* has elapsed returns the vector that was stored, whatever the cache held.
C2_RoundTrip ==
    [][(/\ last.op = "set"
        /\ last.raised = "none"
        /\ last'.op = "get"
        /\ last'.text = last.text
        /\ last'.model = last.model
        /\ last'.at < last.at + TtlHours)
       => last'.result = Found(last.emb)]_vars

\* C3: when the entry stored for (text, model) no longer carries the checksum
\* of text, or the model, the next get(text, model) returns absent and the
\* entry is gone from the store.
C3_TamperMissAndRemoved ==
    (/\ last.op = "get"
     /\ last.pre # NoEntry
     /\ last.pre.form = "ok"
     /\ last.pre.text = last.text
     /\ (last.pre.text_hash # Md5(last.text) \/ last.pre.model # last.model))
    => (last.result = Absent /\ store[LastKey] = NoEntry)

\* C4: a get at or after the entry's creation time plus the TTL returns
\* absent; before that instant a get for the text and model of an unaltered
\* entry returns the stored vector.
C4_Expiry ==
    (last.op = "get" /\ last.pre # NoEntry)
    => /\ last.at >= last.pre.mtime + TtlHours => last.result = Absent
       /\ (/\ last.at < last.pre.mtime + TtlHours
           /\ Intact(last.pre)
           /\ last.pre.text = last.text
           /\ last.pre.model = last.model)
          => last.result = Found(last.pre.embedding)

C4_Witness ==
    /\ last.op = "get"
    /\ last.pre # NoEntry
    /\ Intact(last.pre)
    /\ last.pre.text = last.text
    /\ last.at = last.pre.mtime + TtlHours
    /\ last.result = Absent

\* C5: whatever the store holds at the key (nothing, an expired, unreadable,
\* undeserializable or malformed entry), get raises nothing and returns a
\* non-empty vector or absent.
C5_GetFailsClosed ==
    last.op = "get"
    => /\ last.raised = "none"
       /\ \/ last.result = Absent
          \/ /\ last.result.found
             /\ last.result.embedding # <<>>
             /\ last.result.embedding = last.pre.embedding

C5_Witness ==
    /\ last.op = "get"
    /\ last.pre # NoEntry
    /\ last.pre.form \in {"garbled", "unreadable"}
    /\ last.at < last.pre.mtime + TtlHours
    /\ last.result = Absent

IsOversize(embedding) == SerializedSize(embedding) > EntrySizeLimit

C8_CapacityBound ==
    (last.op = "set" /\ last.raised = "none")
    => /\ get_cache_size(store) <= MaxCacheSizeMb * MB
       /\ get_cache_size(store) + SumEvicted(last.evicted, 1) > MaxCacheSizeMb * MB
          => get_cache_size(store) * 10 <= MaxCacheSizeMb * MB * 8

C8_Witness ==
    /\ last.op = "set"
    /\ last.raised = "none"
    /\ Len(last.evicted) >= 1
    /\ get_cache_size(store) > 0

\* C9: every entry the eviction deleted is no younger than every entry that
\* survived it, and each deletion happened while the total was still above
\* the target.
C9_OldestFirst ==
    last.op = "set"
    => /\ \A i \in 1..Len(last.evicted) : \A k \in Present(store) :
             last.evicted[i].mtime <= store[k].mtime
       /\ \A i \in 1..Len(last.evicted) :
             (get_cache_size(store) + SumEvicted(last.evicted, i)) * 10
                 > MaxCacheSizeMb * MB * 8

C9_Witness ==
    /\ last.op = "set"
    /\ Len(last.evicted) >= 1
    /\ \E k \in Present(store) : last.evicted[1].mtime < store[k].mtime

\* C7: a get that runs while a set writes the same key returns absent or a
\* vector that was handed whole to some set for that key.
C7_AtomicWrite ==
    (last.op = "get" /\ last.result.found) => last.result.embedding \in written

\* C1: embed with caching enabled returns one vector per input text, the
\* vector at position i being the embedding of the text at position i,
\* whichever texts were cache hits and in whatever order the provider
\* returned the vectors of the others.
C1_EmbedKeepsInputOrder ==
    (embedded.op = "embed" /\ embedded.use_cache /\ embedded.raised = "none")
    => /\ Len(embedded.final) = Len(embedded.texts)
       /\ \A i \in 1..Len(embedded.texts) : embedded.final[i] = Emb(embedded.texts[i])

\* C10: search raises ValidationError for an empty or whitespace-only query,
\* for every limit below 1 or above 100 and for every min_similarity_score
\* below 0.0 or above 1.0, and for no other arguments: limit 1 and 100 and
\* scores 0.0 and 1.0 are accepted.
C10_SearchValidation ==
    /\ searched.op = "search"
       => (searched.raised = "ValidationError"
           <=> \/ \A i \in 1..Len(searched.query) : searched.query[i] \in {" ", "\t", "\n"}
               \/ searched.limit < 1
               \/ searched.limit > 100
               \/ searched.min_score < 0
               \/ searched.min_score > ScoreOne)
    /\ pending.op = "search"
       => /\ \E i \in 1..Len(pending.query) : pending.query[i] \notin {" ", "\t", "\n"}
          /\ pending.limit \in 1..100
          /\ pending.min_score \in 0..ScoreOne

C10_Witness ==
    /\ searched.op = "search"
    /\ searched.limit = 100
    /\ searched.min_score = ScoreOne
    /\ searched.raised = "none"
    /\ searched.results # <<>>

\* C11: a search call that fails validation does no partial work: the step
\* that raises ValidationError leaves the cache, the embedding client, the
\* collection handles and the vector store as they were.
C11_NoPartialWork ==
    [][(searched' # searched /\ searched'.raised = "ValidationError")
         => /\ UNCHANGED <<store, stats, last, svc, call, embedded, chromadb, pending>>
            /\ engine'.collections = engine.collections
            /\ engine'.collections_created = engine.collections_created
            /\ engine'.embed_requests = engine.embed_requests
            /\ engine'.cache_hits = engine.cache_hits]_vars

\* a rejected call on an engine whose collection was never opened while the
\* store holds none
C11_Witness ==
    /\ searched.raised = "ValidationError"
    /\ engine.collections = {}
    /\ chromadb = {}

\* the four bonuses as the documentation of the scoring states them
SectorMatches(metadata, context) == metadata.secteur = context.sector
TypeMatches(metadata, context) == metadata.type_ao = context.ao_type
BucketMatches(metadata, context) ==
    /\ context.estimated_amount # None
    /\ metadata.fourchette_montant = get_amount_range(context.estimated_amount)
KeywordInBoth(metadata, context) ==
    \E k \in 1..Len(org_types) :
        /\ IsSubstring(org_types[k], LowerAll(context.organisme))
        /\ IsSubstring(org_types[k], LowerAll(metadata.organisme))

\* C14: the relevance score lies between the base similarity and 1.0, and is
\* exactly 1.0 when all four bonuses trigger on a base of 0.8 or 0.9.
C14_RelevanceClamp ==
    searched.op = "calculate_contextual_relevance"
    => /\ searched.base_similarity <= searched.result
       /\ searched.result <= ScoreOne
       /\ (/\ searched.context.present
           /\ searched.base_similarity \in {80, 90}
           /\ SectorMatches(searched.metadata, searched.context)
           /\ TypeMatches(searched.metadata, searched.context)
           /\ BucketMatches(searched.metadata, searched.context)
           /\ KeywordInBoth(searched.metadata, searched.context))
          => searched.result = ScoreOne

\* all four bonuses on a base of 0.8
C14_Witness ==
    /\ searched.op = "calculate_contextual_relevance"
    /\ searched.context.present
    /\ searched.base_similarity = 80
    /\ SectorMatches(searched.metadata, searched.context)
    /\ TypeMatches(searched.metadata, searched.context)
    /\ BucketMatches(searched.metadata, searched.context)
    /\ KeywordInBoth(searched.metadata, searched.context)
    /\ searched.result = ScoreOne

\* the sum of the bonuses as the documentation of the scoring states it
StatedBonus(metadata, context) ==
    IF ~context.present THEN 0
    ELSE (IF SectorMatches(metadata, context) THEN 10 ELSE 0)
         + (IF TypeMatches(metadata, context) THEN 10 ELSE 0)
         + (IF BucketMatches(metadata, context) THEN 8 ELSE 0)
         + (IF KeywordInBoth(metadata, context) THEN 5 ELSE 0)

\* C15: the relevance score is min(1.0, base + B), B being 0 without a context
\* and otherwise +0.10 for the sector, +0.10 for the type, +0.08 for the
\* amount bucket and +0.05 once for an institution keyword found in both
\* organisme strings, each bonus independent of the others.
C15_RelevanceDefinition ==
    searched.op = "calculate_contextual_relevance"
    => searched.result
         = Min(ScoreOne, searched.base_similarity
                           + StatedBonus(searched.metadata, searched.context))

\* the parts of the enriched query as the documentation states them
StatedParts(query, context) ==
    <<query,
      <<"appel", " ", "offres", " ", context.ao_type>>,
      <<"secteur", " ", context.sector>> >>
    \o (IF context.estimated_amount # None
        THEN << <<"montant", " ", get_amount_range(context.estimated_amount)>> >>
        ELSE <<>>)
    \o (IF context.technical_domains # <<>>
        THEN << <<"technologies", " ">>
                \o Join(DomainValues(context.technical_domains), <<" ">>) >>
        ELSE <<>>)
    \o (IF context.organisme # <<>>
        THEN << <<"organisme", " ">> \o context.organisme >>
        ELSE <<>>)

\* C17: enrich returns the query unchanged without a context; otherwise the
\* parts joined by " - " in the order query, type, sector, amount bucket (if
\* an amount is present), technical domains (if any), organisme (if present).
C17_EnrichParts ==
    searched.op = "enrich_query_with_context"
    => searched.result
         = IF ~searched.context.present THEN searched.query
           ELSE Join(StatedParts(searched.query, searched.context), <<" ", "-", " ">>)

\* the filters the documentation derives from the context
StatedContextFilters(context) ==
    LET keys == IF ~context.present THEN {}
                ELSE {"secteur", "type_ao"}
                     \cup (IF context.estimated_amount # None
                           THEN {"fourchette_montant"} ELSE {})
                     \cup (IF context.technical_domains # <<>>
                           THEN {"domaine_technique"} ELSE {})
    IN [k \in keys |->
           IF k = "secteur" THEN Eq(context.sector)
           ELSE IF k = "type_ao" THEN Eq(context.ao_type)
           ELSE IF k = "fourchette_montant"
                THEN Eq(get_amount_range(context.estimated_amount))
           ELSE In(context.technical_domains)]

\* C18: build_filter gives an equality filter per scalar attribute present in
\* the context and a $in filter for a non-empty domain list, the caller's
\* filters laid over them (the caller's value wins), and None exactly when
\* neither gives a filter.
C18_BuildFilters ==
    searched.op = "build_metadata_filters"
    => LET expected == StatedContextFilters(searched.context)
           caller == IF searched.additional_filters = None THEN EmptyDict
                     ELSE searched.additional_filters[1]
       IN IF DOMAIN expected \cup DOMAIN caller = {}
          THEN searched.result = None
          ELSE /\ searched.result # None
               /\ DOMAIN searched.result[1] = DOMAIN expected \cup DOMAIN caller
               /\ \A k \in DOMAIN caller : searched.result[1][k] = caller[k]
               /\ \A k \in DOMAIN expected \ DOMAIN caller :
                      searched.result[1][k] = expected[k]

\* max(0, 1 - distance) as the documentation states it: 1 at distance 0, 0
\* from distance 1 on
StatedSimilarity(distance) == IF distance >= ScoreOne THEN 0 ELSE ScoreOne - distance

\* the neighbours of the last search that were returned
Returned == {searched.results[k].neighbour : k \in 1..Len(searched.results)}

\* C12: every result of search carries the similarity max(0, 1 - distance) of
\* its neighbour, in [0, 1] and not below min_similarity_score; a neighbour
\* whose similarity is below the floor is never returned, whatever its bonuses.
C12_SimilarityAndFloor ==
    searched.op = "search"
    => /\ \A k \in 1..Len(searched.results) :
              LET r == searched.results[k]
                  distance == searched.raw[r.neighbour].distance
              IN /\ r.similarity_score = StatedSimilarity(distance)
                 /\ 0 <= r.similarity_score /\ r.similarity_score <= ScoreOne
                 /\ r.similarity_score >= searched.min_score
       /\ \A i \in 1..Len(searched.raw) :
              StatedSimilarity(searched.raw[i].distance) < searched.min_score
              => i \notin Returned

\* a neighbour below the floor that the bonuses of the context would lift
\* above it is left out, another one is returned
C12_Witness ==
    /\ searched.op = "search"
    /\ searched.raised = "none"
    /\ searched.results # <<>>
    /\ \E i \in 1..Len(searched.raw) :
          /\ i \notin Returned
          /\ StatedSimilarity(searched.raw[i].distance) < searched.min_score
          /\ calculate_contextual_relevance(searched.raw[i].metadata, searched.context,
                 Similarity(searched.raw[i].distance)) >= searched.min_score

\* the neighbours of the last search at or above the floor that were cut
CutByTruncation ==
    {i \in 1..Len(searched.raw) :
        /\ StatedSimilarity(searched.raw[i].distance) >= searched.min_score
        /\ i \notin Returned}

\* C13: the list returned by search is in non-increasing order of relevance,
\* has at most `limit` entries, and no neighbour that passed the floor and was
\* cut has a relevance strictly greater than a returned result.
C13_OrderAndTruncation ==
    (searched.op = "search" /\ searched.raised = "none")
    => /\ \A k \in 1..(Len(searched.results) - 1) :
              searched.results[k].relevance_score >= searched.results[k + 1].relevance_score
       /\ Len(searched.results) <= searched.limit
       /\ \A i \in CutByTruncation, k \in 1..Len(searched.results) :
              calculate_contextual_relevance(searched.raw[i].metadata, searched.context,
                  StatedSimilarity(searched.raw[i].distance))
                <= searched.results[k].relevance_score

\* two results in another order than the response's, a third neighbour cut
C13_Witness ==
    /\ searched.op = "search"
    /\ searched.raised = "none"
    /\ Len(searched.results) = 2
    /\ searched.results[1].neighbour > searched.results[2].neighbour
    /\ CutByTruncation # {}

\* the position of a returned neighbour in the list
Position(i) == CHOOSE k \in 1..Len(searched.results) : searched.results[k].neighbour = i

\* neighbour i comes before neighbour j in the list, or alone
RanksBefore(i, j) == j \in Returned => (i \in Returned /\ Position(i) < Position(j))

\* retrieved neighbours of equal base similarity at or above the floor, i
\* matching the sector and the type of the context and j neither
TiedPair(i, j) ==
    /\ StatedSimilarity(searched.raw[i].distance) = StatedSimilarity(searched.raw[j].distance)
    /\ StatedSimilarity(searched.raw[i].distance) >= searched.min_score
    /\ SectorMatches(searched.raw[i].metadata, searched.context)
    /\ TypeMatches(searched.raw[i].metadata, searched.context)
    /\ ~SectorMatches(searched.raw[j].metadata, searched.context)
    /\ ~TypeMatches(searched.raw[j].metadata, searched.context)

\* C16: of two retrieved neighbours with the same base similarity at or above
\* the floor, one matching the sector and type of the context and the other
\* neither, search ranks the matching one first, whatever the order of the
\* response.
C16_TieBreak ==
    (searched.op = "search" /\ searched.raised = "none" /\ searched.context.present)
    => \A i, j \in 1..Len(searched.raw) : TiedPair(i, j) => RanksBefore(i, j)

\* C16 as the code has it: the matching neighbour ranks first unless the
\* other's relevance is already capped at 1.0, where the two tie and keep
\* the order of the response.
C16_TieBreakBelowCap ==
    (searched.op = "search" /\ searched.raised = "none" /\ searched.context.present)
    => \A i, j \in 1..Len(searched.raw) :
          (/\ TiedPair(i, j)
           /\ j \in Returned
           /\ searched.results[Position(j)].relevance_score < ScoreOne)
          => RanksBefore(i, j)

\* the response names the other neighbour first, both are returned, the
\* matching one first
C16_Witness ==
    /\ searched.op = "search"
    /\ searched.raised = "none"
    /\ searched.context.present
    /\ \E i, j \in 1..Len(searched.raw) :
          /\ TiedPair(i, j)
          /\ j < i
          /\ j \in Returned
          /\ i \in Returned
          /\ Position(i) < Position(j)

\* C19: an error raised by the enrich, embed, retrieve or scoring step of
\* search reaches the caller as a ScorpiusError or a subclass: one that is
\* already such an error is re-raised as it is, not wrapped; any other is
\* wrapped once, with the query length, the collection and the limit.
C19_ErrorWrapping ==
    (searched.op = "search" /\ searched.step \in {"enrich", "embed", "retrieve", "scoring"})
    => /\ searched.raised
            \in {"ScorpiusError", "ValidationError", "OpenAIError", "ChromaDBError"}
       /\ IF searched.cause
               \in {"ScorpiusError", "ValidationError", "OpenAIError", "ChromaDBError"}
          THEN /\ searched.raised = searched.cause
               /\ ~searched.wrapped
               /\ searched.error_context = None
          ELSE /\ searched.raised = "ScorpiusError"
               /\ searched.wrapped
               /\ searched.error_context
                    = Some([query_length |-> Len(searched.query),
                            collection |-> searched.collection,
                            limit |-> searched.limit])

\* the ValueError of a SearchResult, wrapped
C19_Witness ==
    /\ searched.op = "search"
    /\ searched.step = "scoring"
    /\ searched.cause = "ValueError"
    /\ searched.raised = "ScorpiusError"
    /\ searched.wrapped

\* C20: every search call, failed or not, adds exactly one to total_searches:
\* after any sequence of calls the counter is the number of calls made.
C20_CounterCountsCalls == engine.total_searches = calls

----------------------------------------------------------------------------
\* the embed calls of the batch that have started and not ended
InFlight == {c \in 1..Len(tasks) : tasks[c].pc \in {"sleeping", "calling"}}

\* C21: within one embed_batch call on more texts than batch_size, at most
\* 3 chunk requests are in flight at any time; a chunk of a later wave is
\* started only after every chunk of the wave before it has ended, and not
\* before the pause that follows that wave is over; one pause was made for
\* each wave but the first.
C21_BoundedWaves ==
    /\ Cardinality(InFlight) <= max_concurrent
    /\ \A c, d \in 1..Len(tasks) :
          tasks[c].wave < tasks[d].wave
          => /\ tasks[c].pc \in {"done", "failed"}
             /\ tasks[d].began >= tasks[c].ended + PauseTicks
    /\ batch.pc = "gathering" => batch.pauses = batch.wave - 1

\* the fourth chunk is at the provider after a first wave of three requests
C21_Witness ==
    /\ Len(tasks) = 4
    /\ tasks[4].wave = 2
    /\ tasks[4].pc = "calling"
    /\ \A c \in 1..3 : tasks[c].wave = 1 /\ tasks[c].to_process # <<>>
    /\ Len(starts) = 4

\* C22: embed_batch is fail-fast: when the call of a chunk raises,
\* embed_batch raises the first such error and returns no partial list, and
\* no chunk that had not ended when the error occurred goes on to send its
\* request to the provider or to complete it, and no further chunk starts.
C22_FailFast ==
    /\ [](batch.pc = "returned"
            => /\ \A c \in 1..Len(tasks) : tasks[c].pc = "done"
               /\ Len(batch.all_embeddings) = Len(batch.texts))
    /\ [][(\E c \in 1..Len(tasks) : tasks[c].pc = "failed")
            => /\ Len(tasks') = Len(tasks)
               /\ \A d \in 1..Len(tasks) :
                     tasks'[d].pc # tasks[d].pc => tasks'[d].pc \notin {"calling", "done"}]_vars

\* C23: any two requests of one client are sent to the provider at least
\* 60 / requests_per_minute apart, whether they come from embed calls made
\* one after the other or from the chunk calls of one wave of embed_batch.
C23_RateLimit ==
    \A i, j \in 1..Len(starts) : i < j => starts[j] - starts[i] >= RateLimitDelay

\* the texts of a list for which the cache has no valid entry
Missed(texts) ==
    SelectSeq(texts, LAMBDA t :
        ~get(store, stats, now, t, CHOOSE m \in Models : TRUE, "none").result.found)

\* C24: with caching enabled, an embed call sends no request to the
\* provider when every text is a cache hit, and otherwise exactly one
\* request, which carries exactly the texts that missed, in input order.
C24_OneBatchedCall ==
    [][/\ (call.pc = "idle" /\ call'.pc = "awaiting" /\ call'.use_cache)
          => /\ call'.to_process = Missed(call'.texts)
             /\ call'.to_process # <<>>
             /\ svc'.api_calls = svc.api_calls + 1
       /\ (call.pc = "idle" /\ call'.pc = "idle" /\ embedded' # embedded
             /\ embedded'.use_cache /\ embedded'.raised = "none")
          => /\ Missed(embedded'.texts) = <<>>
             /\ svc'.api_calls = svc.api_calls
       /\ call.pc = "awaiting" => svc'.api_calls = svc.api_calls]_vars

\* a request for the one missed text of a list whose other texts were hits
C24_Witness ==
    /\ call.pc = "awaiting"
    /\ call.use_cache
    /\ Len(call.texts) = 3
    /\ Len(call.cached) = 2
    /\ call.to_process = <<TextD>>

\* C25: an error of the cache never fails an embed call: when a lookup or
\* a write-back fails, the capacity error raised by set included, embed
\* raises nothing but its own validation error or the error of the
\* provider, and returns every vector it obtained from the provider.
C25_CacheErrorsAbsorbed ==
    embedded.op = "embed"
    => /\ embedded.raised \in {"none", "ValidationError", "OpenAIError"}
       /\ embedded.obtained # <<>> => embedded.raised = "none"
       /\ embedded.raised = "none"
          => /\ Len(embedded.final) = Len(embedded.texts)
             /\ \A j \in 1..Len(embedded.obtained) :
                   \E q \in 1..Len(embedded.final) :
                       embedded.final[q] = embedded.obtained[j]

\* an embed call returned after the lookup of an unreadable entry failed
\* and set refused the vector of TextBig
C25_Witness ==
    /\ embedded.texts = <<TextBig, TextAB>>
    /\ embedded.raised = "none"
    /\ embedded.obtained # <<>>
    /\ stats.cache_errors = 2
    /\ store[get_cache_key(TextBig, CHOOSE m \in Models : TRUE)] = NoEntry
    /\ \E q \in 1..2 : embedded.final[q] = Emb(TextBig)

\* C26: every failure of a provider call is raised as OpenAIError and
\* counted once in the error counter; the error carries the status code of
\* the provider when the failure has a response, and is retryable exactly
\* when that status is 429 or at least 500, an authentication error
\* exactly when it is 401 or 403, rate-limited exactly when it is 429.
C26_ErrorTranslation ==
    /\ [](embedded.raised = "OpenAIError"
            => LET f == embedded.failure
                   e == embedded.error
               IN /\ e.api_provider = "OpenAI"
                  /\ f.response => e.status_code = Some(f.status_code)
                  /\ is_retryable(e)
                        <=> (f.response /\ (f.status_code >= 500 \/ f.status_code = 429))
                  /\ is_authentication_error(e)
                        <=> (f.response /\ f.status_code \in {401, 403})
                  /\ is_rate_limited(e) <=> (f.response /\ f.status_code = 429))
    /\ [][(call.pc = "awaiting" /\ call'.pc = "idle" /\ embedded'.raised = "OpenAIError")
            => svc'.errors = svc.errors + 1]_vars

\* C27: an error of the provider that is an authentication error or a
\* quota error is not retryable, whatever status code and error code it
\* was built from.
C27_NoRetryOnAuthOrQuota ==
    embedded.raised = "OpenAIError"
    => ((is_authentication_error(embedded.error) \/ is_quota_exceeded(embedded.error))
          => ~is_retryable(embedded.error))

\* C28: the counters of the cache, of the embedding client and of the
\* engine never decrease, whatever the sequence of get, set, clear, embed
\* and search calls.
C28_CountersMonotonic ==
    [][/\ stats'.total_requests >= stats.total_requests
       /\ stats'.cache_hits >= stats.cache_hits
       /\ stats'.cache_misses >= stats.cache_misses
       /\ stats'.cache_errors >= stats.cache_errors
       /\ svc'.total_requests >= svc.total_requests
       /\ svc'.cache_hits >= svc.cache_hits
       /\ svc'.api_calls >= svc.api_calls
       /\ svc'.errors >= svc.errors
       /\ svc'.total_tokens >= svc.total_tokens
       /\ engine'.total_searches >= engine.total_searches]_vars

\* C30: within one embed call each text is looked up in the cache exactly
\* once, before the request to the provider; once the request is sent
\* nothing is read from the cache, and no cache operation is made twice:
\* at most one set, hence at most one cache error, for each text sent.
C30_NoRecheck ==
    [][/\ (call.pc = "idle" /\ call'.pc = "awaiting" /\ call'.use_cache)
          => stats'.total_requests = stats.total_requests + Len(call'.texts)
       /\ (call.pc = "idle" /\ call'.pc = "idle" /\ embedded' # embedded
             /\ embedded'.use_cache /\ embedded'.raised = "none")
          => stats'.total_requests = stats.total_requests + Len(embedded'.texts)
       /\ call.pc = "awaiting"
          => /\ stats'.total_requests = stats.total_requests
             /\ stats'.cache_hits = stats.cache_hits
             /\ stats'.cache_misses = stats.cache_misses
             /\ stats'.cache_errors <= stats.cache_errors + Len(call.to_process)]_vars

\* the first embed call returned: two texts, two lookups, both vectors
\* obtained from the provider while every set failed
C30_Witness ==
    /\ embedded.raised = "none"
    /\ Len(embedded.texts) = 2
    /\ Len(embedded.obtained) = 2
    /\ embedded.fault = "open"
    /\ stats.total_requests = 2
    /\ stats.cache_errors = 2

\* C29: collection handles are created once and cached.  Once a name has
\* a cached handle, every access returns that handle without a call to the
\* vector store and the cached handle is never replaced; requests that were
\* in flight together for a name that was not cached all end with the one
\* cached handle, and the collection was created at most once.
C29_HandleCachedOnce ==
    /\ [](\A r \in Requests :
            (inflight[r].pc = "opened" /\ ~inflight[r].raised)
            => /\ inflight[r].handle = engine.handles[inflight[r].name]
               /\ inflight[r].handle # None
               /\ inflight[r].was_cached => inflight[r].store_calls = 0)
    /\ [](\A r \in Requests :
            (inflight[r].pc = "opened" /\ inflight[r].was_cached) => ~inflight[r].raised)
    /\ [](engine.collections_created
            <= Cardinality({n \in AllCollections : engine.handles[n] # None}))
    /\ [][\A n \in AllCollections :
             engine.handles[n] # None => engine'.handles[n] = engine.handles[n]]_vars

\* two requests were in flight together for a collection that did not
\* exist: the first created it, the second got the handle of the first
C29_Witness ==
    /\ inflight[1].pc = "opened" /\ inflight[2].pc = "opened"
    /\ inflight[1].name = inflight[2].name
    /\ inflight[1].peers = {2}
    /\ ~inflight[1].was_cached /\ inflight[1].store_calls = 2
    /\ inflight[2].was_cached /\ inflight[2].store_calls = 0
    /\ inflight[2].handle = inflight[1].handle
    /\ engine.collections_created = 1

\* C31: whenever get finds an entry at the key and answers absent because
\* the entry is expired or cannot be read or deserialized, the entry is gone
\* from the store when get returns.
C31_FoundInvalidDeleted ==
    (/\ last.op = "get"
     /\ last.pre # NoEntry
     /\ last.result = Absent
     /\ \/ last.at >= last.pre.mtime + TtlHours
        \/ last.pre.form \in {"unreadable", "garbled"})
    => store[LastKey] = NoEntry

\* C32: every get adds one to total_requests and one to exactly one of
\* cache_hits and cache_misses, so that as long as the cache is not cleared
\* cache_hits + cache_misses = total_requests.
C32_HitOrMissCounted ==
    /\ [](stats.cache_hits + stats.cache_misses = stats.total_requests)
    /\ [][last'.op = "get" =>
             /\ stats'.total_requests = stats.total_requests + 1
             /\ stats'.cache_hits + stats'.cache_misses
                    = stats.cache_hits + stats.cache_misses + 1]_<<stats, last>>

RECURSIVE SumDurations(_, _)
SumDurations(ds, i) == IF i > Len(ds) THEN 0 ELSE ds[i] + SumDurations(ds, i + 1)

\* C33: after any sequence of searches, some succeeding and some failing,
\* avg_search_time_ms is the arithmetic mean of the durations of the searches
\* that completed successfully.
C33_RunningMean ==
    IF durations = <<>>
    THEN engine.avg_search_time_ms.num = 0
    ELSE engine.avg_search_time_ms.num * Len(durations)
            = SumDurations(durations, 1) * engine.avg_search_time_ms.den

\* C34: for every context whose amount is set, an amount of 0 included,
\* enrich includes the amount-bucket phrase, build_filter includes the bucket
\* equality filter (unless the caller's filters replace it), and the bucket
\* bonus is granted when the bucket of the metadata is that of the context.
C34_AmountHonoured ==
    (/\ searched.op \in {"enrich_query_with_context", "build_metadata_filters",
                         "calculate_contextual_relevance"}
     /\ searched.context.present
     /\ searched.context.estimated_amount # None)
    => LET bucket == get_amount_range(searched.context.estimated_amount)
       IN /\ searched.op = "enrich_query_with_context"
                => IsSubstring(<<"montant", " ", bucket>>, searched.result)
          /\ searched.op = "build_metadata_filters"
                => /\ searched.result # None
                   /\ "fourchette_montant" \in DOMAIN searched.result[1]
                   /\ \/ /\ searched.additional_filters # None
                         /\ "fourchette_montant" \in DOMAIN searched.additional_filters[1]
                      \/ searched.result[1]["fourchette_montant"] = Eq(bucket)
          /\ (/\ searched.op = "calculate_contextual_relevance"
              /\ searched.metadata.fourchette_montant = bucket)
                => searched.result >= Min(ScoreOne, searched.base_similarity + AmountBonus)

\* the texts of the last embed call for which the cache had no valid entry
\* when the call was made
MissedBefore ==
    SelectSeq(embedded.texts, LAMBDA t :
        ~get(embedded.cache_before, stats, now, t, CHOOSE m \in Models : TRUE,
             "none").result.found)

\* the keys of the entries the last embed call created or rewrote
CreatedKeys ==
    {k \in DOMAIN store : store[k] # NoEntry /\ store[k] # embedded.cache_before[k]}

StoredKeys ==
    {get_cache_key(embedded.stored[i], CHOOSE m \in Models : TRUE) :
        i \in 1..Len(embedded.stored)}

\* C35 as stated: embed hands to the cache exactly the texts that missed,
\* once the provider call has succeeded; a call whose texts are all hits
\* and a call whose provider call fails leave the cache contents unchanged.
C35_WritesOnlyAfterSuccess ==
    (embedded.op = "embed" /\ embedded.use_cache /\ call.pc = "idle")
    => /\ embedded.stored = IF embedded.raised = "none" THEN MissedBefore ELSE <<>>
       /\ CreatedKeys \subseteq StoredKeys
       /\ (MissedBefore = <<>> \/ embedded.raised = "OpenAIError")
             => store = embedded.cache_before

\* C35, amended: a call whose texts are all hits leaves the cache contents
\* unchanged, and a call whose provider call fails creates and rewrites no
\* entry; the entries its lookups found invalid are deleted all the same.
C35_CreatesOnlyAfterSuccess ==
    (embedded.op = "embed" /\ embedded.use_cache /\ call.pc = "idle")
    => /\ embedded.stored = IF embedded.raised = "none" THEN MissedBefore ELSE <<>>
       /\ CreatedKeys \subseteq StoredKeys
       /\ MissedBefore = <<>> => store = embedded.cache_before
       /\ embedded.raised = "OpenAIError"
             => \A k \in DOMAIN store : store[k] \in {embedded.cache_before[k], NoEntry}

\* a list with one hit and one miss: the missed text alone was stored
C35_Witness ==
    /\ embedded.op = "embed"
    /\ embedded.use_cache
    /\ call.pc = "idle"
    /\ embedded.raised = "none"
    /\ Len(embedded.texts) = 2
    /\ Len(embedded.stored) = 1
    /\ store[get_cache_key(embedded.stored[1], CHOOSE m \in Models : TRUE)].text
          = embedded.stored[1]

\* the texts of the chunks made so far, in the order of the chunks
RECURSIVE ChunkTexts(_)
ChunkTexts(c) == IF c = 0 THEN <<>> ELSE ChunkTexts(c - 1) \o tasks[c].texts

\* C36: embed_batch puts each text in exactly one chunk of at most
\* batch_size texts, the chunks following the input; the list it returns has
\* one vector per input text, the vector of text i at position i, however
\* the chunks completed; an empty input returns an empty list without any
\* call to the provider.
C36_PartitionAndOrder ==
    batch.pc # "idle"
    => /\ \A c \in 1..Len(tasks) :
             Len(tasks[c].texts) >= 1 /\ Len(tasks[c].texts) <= batch.batch_size
       /\ ChunkTexts(Len(tasks)) = SubSeq(batch.texts, 1, Len(ChunkTexts(Len(tasks))))
       /\ batch.pc = "returned"
             => /\ ChunkTexts(Len(tasks)) = batch.texts
                /\ batch.all_embeddings
                      = [i \in 1..Len(batch.texts) |-> Emb(batch.texts[i])]
       /\ batch.texts = <<>> => batch.pc = "returned" /\ starts = <<>>

\* C37: get(text, model) returns a vector only when the entry at the key
\* was written by set for exactly this raw text and this model, and then it
\* is the vector of that entry; for an entry written for another raw text
\* with the same normalised form it returns absent.
C37_OwnVectorOnly ==
    (last.op = "get" /\ last.pre # NoEntry)
    => /\ last.result.found
             => /\ last.pre.text = last.text
                /\ last.pre.model = last.model
                /\ last.result.embedding = last.pre.embedding
       /\ last.pre.text # last.text => last.result = Absent

\* a get for "a  b" on the unexpired, unaltered entry that set wrote for "a b"
C37_Witness ==
    /\ last.op = "get"
    /\ last.text = TextA_B
    /\ last.pre # NoEntry
    /\ Intact(last.pre)
    /\ last.pre.text = TextAB
    /\ last.pre.model = last.model
    /\ last.at < last.pre.mtime + TtlHours
    /\ last.result = Absent

\* C38: when no embed call is in progress, the cache_hit_rate that the
\* embedding client reports lies between 0 and 1, and it is 0 as long as no
\* request is counted.
C38_HitRateIsRatio ==
    call.pc = "idle"
    => LET rate == get_performance_stats(svc).cache_hit_rate
       IN /\ 0 <= rate.num
          /\ rate.num <= rate.den
          /\ svc.total_requests = 0 => rate = Zero

\* the chunk task c has sent its request to the provider, and the request
\* has not failed
Requested(c) == tasks[c].pc \in {"calling", "done"} /\ tasks[c].to_process # <<>>

\* C39: with caching enabled, no text is in the provider requests of two
\* different chunk tasks of one wave of embed_batch.
C39_SentAtMostOnce ==
    batch.use_cache
    => \A c1, c2 \in 1..Len(tasks) :
          (c1 < c2 /\ tasks[c1].wave = tasks[c2].wave /\ Requested(c1) /\ Requested(c2))
          => \A j1 \in 1..Len(tasks[c1].to_process), j2 \in 1..Len(tasks[c2].to_process) :
                tasks[c1].to_process[j1] # tasks[c2].to_process[j2]

\* C40: when a set that met no fault and wrote its entry returns, the entry
\* it wrote is in the cache: the capacity eviction it triggered has not
\* deleted it.
C40_NewEntryKept ==
    (last.op = "set" /\ last.fault = "none" /\ SetException(last.emb, "none") = "none")
    => /\ LastKey \in Present(store)
       /\ \A i \in 1..Len(last.evicted) : last.evicted[i].key # LastKey

====
